---- MODULE Spec2Model ----
(***************************************************************************)
(* A model of sftp.c: the packet getters, the request registry with its    *)
(* first-fit id allocator, the STATUS decoder and the pipelined transfer   *)
(* engine (download and upload).                                           *)
(*                                                                         *)
(* Representation.                                                         *)
(*  - A 32-bit unsigned value is a pair <<hi, lo>> of 16-bit halves, so    *)
(*    that wrap-around (low = -1, a status code with the top bit set) is   *)
(*    computed exactly.                                                    *)
(*  - Packet data is a sequence of items; an item is a literal byte or a   *)
(*    run of n file bytes starting at file offset v (the file's byte at    *)
(*    offset i is FileByte(i)).                                            *)
(*  - tree234 is the sequence of its elements in key order.                *)
(*  - A pointer is a positive serial number; 0 is NULL.                    *)
(***************************************************************************)
EXTENDS Integers, Sequences, FiniteSets, TLC

VARIABLES
    sftp_requests,      \* the registry: descriptors in id order
    fxp_errtype,        \* error channel: kind
    fxp_error_message,  \* error channel: message
    nalloc,             \* pointers handed out so far (descriptors and req records)
    xfer,               \* struct fxp_xfer (mode "none" when no transfer exists)
    rrq,                \* the transfer's list of struct req, head first
    outstanding,        \* server side: requests received and not yet answered
    issued,             \* history: every request the transfer has sent, in order
    delivered,          \* history: what xfer_download_data handed to the consumer
    freed,              \* history: the pointers the engine has given to sfree
    env,                \* the file on the server, the start offset, replies so far
    last                \* the last operation: its name, inputs and results

vars == <<sftp_requests, fxp_errtype, fxp_error_message, nalloc, xfer, rrq,
          outstanding, issued, delivered, freed, env, last>>

(***************************************************************************)
(* Bounds of the model.                                                    *)
(***************************************************************************)
MaxReqs == 3          \* registry size explored by the registry specification
MaxAllocs == 4        \* allocations per behaviour of the registry specification
MaxBadReplies == 1    \* replies of a download that disobey the file's contents
MaxCode == 40        \* STATUS codes 0 .. MaxCode are decoded, and four beyond
MaxWrites == 3        \* writes an upload issues
ReqMaxSize == 65537   \* the window; xfer_init sets 1048576 (32 reads in flight)

(***************************************************************************)
(* Protocol constants (sftp.h).                                            *)
(***************************************************************************)
SSH_FXP_STATUS == 101
SSH_FXP_HANDLE == 102
SSH_FXP_DATA == 103
SSH_FX_OK == 0
SSH_FX_EOF == 1
SSH_FX_FAILURE == 4
REQUEST_ID_OFFSET == 256
ReadLen == 32768      \* rr->len of a queued READ

(***************************************************************************)
(* 32-bit unsigned arithmetic on <<hi, lo>>.                               *)
(***************************************************************************)
Half == 256 * 256

U32(n) == <<n \div Half, n % Half>>

U32Add(a, b) ==
    LET lo == a[2] + b[2]
        hi == a[1] + b[1] + (lo \div Half)
    IN  <<hi % Half, lo % Half>>

U32Sub(a, b) ==
    LET lo == a[2] - b[2]
        borrow == IF lo < 0 THEN 1 ELSE 0
        hi == a[1] - b[1] - borrow
    IN  <<hi % Half, lo % Half>>

U32Div2(a) == <<a[1] \div 2, (a[2] \div 2) + (a[1] % 2) * (Half \div 2)>>

U32Less(a, b) == a[1] < b[1] \/ (a[1] = b[1] /\ a[2] < b[2])

\* conversion of an unsigned 32-bit value to int (two's complement)
ToInt(a) ==
    IF a[1] >= Half \div 2 THEN (a[1] - Half) * Half + a[2]
    ELSE a[1] * Half + a[2]

(***************************************************************************)
(* Only({e}) is e.  A value the code computes once and uses several times  *)
(* is bound as v in Only({F(v) : v \in {e}}), which evaluates e once.      *)
(***************************************************************************)
Only(S) == CHOOSE x \in S : TRUE

(***************************************************************************)
(* Packets.                                                                *)
(***************************************************************************)
Lit(b) == [lit |-> TRUE, n |-> 1, v |-> b]
Run(off, n) == [lit |-> FALSE, n |-> n, v |-> off]
FileByte(i) == i % 251

RECURSIVE DataLen(_)
DataLen(d) == IF d = <<>> THEN 0 ELSE Head(d).n + DataLen(Tail(d))

RECURSIVE ByteAt(_, _)
ByteAt(d, pos) ==
    LET it == Head(d) IN
    IF pos < it.n
    THEN (IF it.lit THEN it.v ELSE FileByte(it.v + pos))
    ELSE ByteAt(Tail(d), pos - it.n)

\* the n bytes of d from position pos, as data
RECURSIVE Slice(_, _, _)
Slice(d, pos, n) ==
    IF n = 0 \/ d = <<>> THEN <<>>
    ELSE LET it == Head(d) IN
         IF pos >= it.n THEN Slice(Tail(d), pos - it.n, n)
         ELSE LET k == IF it.n - pos < n THEN it.n - pos ELSE n
                  piece == IF it.lit THEN it ELSE Run(it.v + pos, k)
              IN  <<piece>> \o Slice(Tail(d), 0, n - k)

PUT_32BIT(u) ==
    <<Lit(u[1] \div 256), Lit(u[1] % 256), Lit(u[2] \div 256), Lit(u[2] % 256)>>

GET_32BIT(d, pos) ==
    <<ByteAt(d, pos) * 256 + ByteAt(d, pos + 1),
      ByteAt(d, pos + 2) * 256 + ByteAt(d, pos + 3)>>

NullPkt == [null |-> TRUE, data |-> <<>>, length |-> 0, savedpos |-> 0, type |-> 0]

\* pkt->length - pkt->savedpos < n, in unsigned arithmetic
RemainingLess(pkt, n) ==
    IF pkt.length >= pkt.savedpos THEN pkt.length - pkt.savedpos < n ELSE FALSE

sftp_pkt_getbyte(pkt) ==
    IF RemainingLess(pkt, 1) THEN [ok |-> FALSE, val |-> 0, pkt |-> pkt]
    ELSE [ok |-> TRUE, val |-> ByteAt(pkt.data, pkt.savedpos),
          pkt |-> [pkt EXCEPT !.savedpos = @ + 1]]

sftp_pkt_getuint32(pkt) ==
    IF RemainingLess(pkt, 4) THEN [ok |-> FALSE, val |-> <<0, 0>>, pkt |-> pkt]
    ELSE [ok |-> TRUE, val |-> GET_32BIT(pkt.data, pkt.savedpos),
          pkt |-> [pkt EXCEPT !.savedpos = @ + 4]]

\* GetStringBody accepting a string one byte longer than what remains
GetStringBody_OneBeyond(p1, len) ==
    IF p1.length - p1.savedpos + 1 < len \/ len < 0
    THEN [ok |-> FALSE, length |-> 0, str |-> <<>>, pkt |-> p1]
    ELSE [ok |-> TRUE, length |-> len, str |-> Slice(p1.data, p1.savedpos, len),
          pkt |-> [p1 EXCEPT !.savedpos = @ + len]]

\* sftp_pkt_getstring after the length word: len is *length (an int) and p1
\* the packet with the cursor past it
GetStringBody(p1, len) ==
    IF p1.length - p1.savedpos < len \/ len < 0
    THEN [ok |-> FALSE, length |-> 0, str |-> <<>>, pkt |-> p1]
    ELSE [ok |-> TRUE, length |-> len, str |-> Slice(p1.data, p1.savedpos, len),
          pkt |-> [p1 EXCEPT !.savedpos = @ + len]]

\* str is the data the returned pointer and length denote
sftp_pkt_getstring(pkt) ==
    IF RemainingLess(pkt, 4)
    THEN [ok |-> FALSE, length |-> 0, str |-> <<>>, pkt |-> pkt]
    ELSE Only({GetStringBody([pkt EXCEPT !.savedpos = @ + 4], len)
                  : len \in {ToInt(GET_32BIT(pkt.data, pkt.savedpos))}})

\* the packet sftp_recv builds from the frame body it read
sftp_recv(data) ==
    Only({IF g.ok THEN [g.pkt EXCEPT !.type = g.val] ELSE NullPkt
             : g \in {sftp_pkt_getbyte([null |-> FALSE, data |-> data,
                                        length |-> DataLen(data),
                                        savedpos |-> 0, type |-> 0])}})

(***************************************************************************)
(* 64-bit file offsets: int64.h's pair of 32-bit words <<hi, lo>>.         *)
(***************************************************************************)
ULONG_MAX == <<Half - 1, Half - 1>>

uint64_make(hi, lo) == <<hi, lo>>

uint64_add32(x, y) ==
    LET lo == U32Add(x[2], y)
        hi == IF U32Less(lo, y) THEN U32Add(x[1], U32(1)) ELSE x[1]
    IN  <<hi, lo>>

uint64_compare(x, y) ==
    IF U32Less(x[1], y[1]) THEN -1
    ELSE IF U32Less(y[1], x[1]) THEN 1
    ELSE IF U32Less(x[2], y[2]) THEN -1
    ELSE IF U32Less(y[2], x[2]) THEN 1
    ELSE 0

U64(n) == <<U32(0), U32(n)>>

(***************************************************************************)
(* Packet construction, and the attribute record.                          *)
(***************************************************************************)
SSH_FXP_INIT == 1
SSH_FXP_VERSION == 2
SFTP_PROTO_VERSION == 3
SSH_FXP_NAME == 104

\* flags & SSH_FILEXFER_ATTR_<bit>: SIZE, UIDGID, PERMISSIONS and ACMODTIME are
\* 1, 2, 4 and 8, EXTENDED is the top bit
AttrFlag(flags, bit) ==
    CASE bit = "SIZE" -> flags[2] % 2 = 1
      [] bit = "UIDGID" -> (flags[2] \div 2) % 2 = 1
      [] bit = "PERMISSIONS" -> (flags[2] \div 4) % 2 = 1
      [] bit = "ACMODTIME" -> (flags[2] \div 8) % 2 = 1
      [] bit = "EXTENDED" -> flags[1] >= Half \div 2

sftp_pkt_adddata(pkt, data) ==
    [pkt EXCEPT !.length = @ + DataLen(data), !.data = @ \o data]

sftp_pkt_addbyte(pkt, byte) == sftp_pkt_adddata(pkt, <<Lit(byte % 256)>>)

\* savedpos is (unsigned) -1 until sftp_pkt_addstring_start sets it
sftp_pkt_init(pkt_type) ==
    sftp_pkt_addbyte([null |-> FALSE, data |-> <<>>, length |-> 0, savedpos |-> -1,
                      type |-> 0], pkt_type)

sftp_pkt_adduint32(pkt, value) == sftp_pkt_adddata(pkt, PUT_32BIT(value))

sftp_pkt_addstring_start(pkt) ==
    Only({[p1 EXCEPT !.savedpos = p1.length] : p1 \in {sftp_pkt_adduint32(pkt, U32(0))}})

\* PUT_32BIT(pkt->data + pos, u): four bytes of the data overwritten
Overwrite(d, pos, u) ==
    Slice(d, 0, pos) \o PUT_32BIT(u) \o Slice(d, pos + 4, DataLen(d) - pos - 4)

sftp_pkt_addstring_data(pkt, data, len) ==
    Only({[p1 EXCEPT !.data = Overwrite(@, p1.savedpos - 4, U32(p1.length - p1.savedpos))]
             : p1 \in {sftp_pkt_adddata(pkt, Slice(data, 0, len))}})

\* the words a conditional block of sftp_pkt_addattrs adds
AddWords(pkt, flag, words) ==
    IF ~flag THEN pkt
    ELSE IF Len(words) = 1 THEN sftp_pkt_adduint32(pkt, words[1])
    ELSE sftp_pkt_adduint32(sftp_pkt_adduint32(pkt, words[1]), words[2])

\* nothing is written for SSH_FILEXFER_ATTR_EXTENDED, whose bit goes out in flags
sftp_pkt_addattrs(pkt, attrs) ==
    AddWords(AddWords(AddWords(AddWords(sftp_pkt_adduint32(pkt, attrs.flags),
                                        AttrFlag(attrs.flags, "SIZE"), attrs.size),
                               AttrFlag(attrs.flags, "UIDGID"), <<attrs.uid, attrs.gid>>),
                      AttrFlag(attrs.flags, "PERMISSIONS"), <<attrs.permissions>>),
             AttrFlag(attrs.flags, "ACMODTIME"), <<attrs.atime, attrs.mtime>>)

\* sftp_send: the frame written to the channel (the packet is freed)
sftp_send(pkt) == PUT_32BIT(U32(pkt.length)) \o pkt.data

\* an if block of sftp_pkt_getattrs: r is [ok, attrs, pkt] so far; when the
\* flag is set and r is ok, the block's getuint32 calls fill its field of
\* attrs: one word for flags and permissions, two for size, uidgid and
\* acmodtime (uid and atime are stored even when the second call fails)
GetWords(r, flag, field) ==
    IF ~r.ok \/ ~flag THEN r
    ELSE Only({IF ~g1.ok THEN [r EXCEPT !.ok = FALSE, !.pkt = g1.pkt]
               ELSE IF field \in {"flags", "permissions"}
               THEN [ok |-> TRUE, attrs |-> [r.attrs EXCEPT ![field] = g1.val], pkt |-> g1.pkt]
               ELSE Only({[ok |-> g2.ok, pkt |-> g2.pkt,
                           attrs |-> CASE field = "size" ->
                                            IF g2.ok
                                            THEN [r.attrs EXCEPT
                                                     !.size = uint64_make(g1.val, g2.val)]
                                            ELSE r.attrs
                                       [] field = "uidgid" ->
                                            IF g2.ok
                                            THEN [r.attrs EXCEPT !.uid = g1.val, !.gid = g2.val]
                                            ELSE [r.attrs EXCEPT !.uid = g1.val]
                                       [] field = "acmodtime" ->
                                            IF g2.ok
                                            THEN [r.attrs EXCEPT !.atime = g1.val,
                                                                 !.mtime = g2.val]
                                            ELSE [r.attrs EXCEPT !.atime = g1.val]]
                             : g2 \in {sftp_pkt_getuint32(g1.pkt)}})
                  : g1 \in {sftp_pkt_getuint32(r.pkt)}})

\* while (count--): two strings are read and dropped per extended attribute
RECURSIVE ExtendedLoop(_, _)
ExtendedLoop(r, count) ==
    IF count = U32(0) THEN r
    ELSE Only({IF ~s1.ok THEN [r EXCEPT !.ok = FALSE, !.pkt = s1.pkt]
               ELSE Only({IF ~s2.ok THEN [r EXCEPT !.ok = FALSE, !.pkt = s2.pkt]
                          ELSE ExtendedLoop([r EXCEPT !.pkt = s2.pkt], U32Sub(count, U32(1)))
                             : s2 \in {sftp_pkt_getstring(s1.pkt)}})
                  : s1 \in {sftp_pkt_getstring(r.pkt)}})

\* ret is what *ret held before the call: a field whose flag is clear keeps it
sftp_pkt_getattrs(pkt, ret) ==
    Only({IF ~r.ok \/ ~AttrFlag(r.attrs.flags, "EXTENDED") THEN r
          ELSE Only({IF ~g.ok THEN [r EXCEPT !.ok = FALSE, !.pkt = g.pkt]
                     ELSE ExtendedLoop([r EXCEPT !.pkt = g.pkt], g.val)
                        : g \in {sftp_pkt_getuint32(r.pkt)}})
             : r \in {Only({GetWords(GetWords(GetWords(GetWords(r0,
                                AttrFlag(r0.attrs.flags, "SIZE"), "size"),
                                AttrFlag(r0.attrs.flags, "UIDGID"), "uidgid"),
                                AttrFlag(r0.attrs.flags, "PERMISSIONS"), "permissions"),
                                AttrFlag(r0.attrs.flags, "ACMODTIME"), "acmodtime")
                               : r0 \in {GetWords([ok |-> TRUE, attrs |-> ret, pkt |-> pkt],
                                                  TRUE, "flags")}})}})

(***************************************************************************)
(* tree234, as the sequence of its elements in key order.                  *)
(***************************************************************************)
NullReq == [ptr |-> 0, id |-> 0, registered |-> FALSE, userdata |-> 0]

count234(t) == Len(t)

index234(t, index) ==
    IF index < 0 \/ index >= Len(t) THEN NullReq ELSE t[index + 1]

\* sftp_reqfind: the key is an unsigned id, compared with each element's id
find234(t, key) ==
    Only({IF hits = {} THEN NullReq ELSE t[Only(hits)]
             : hits \in {{i \in DOMAIN t : U32(t[i].id) = key}}})

\* sftp_reqcmp orders by id; an element with an equal id is not added again
add234(t, e) ==
    IF \E i \in DOMAIN t : t[i].id = e.id THEN t
    ELSE Only({SubSeq(t, 1, k) \o <<e>> \o SubSeq(t, k + 1, Len(t))
                  : k \in {Cardinality({i \in DOMAIN t : t[i].id < e.id})}})

del234(t, e) == SelectSeq(t, LAMBDA x : x.ptr # e.ptr)

(***************************************************************************)
(* sftp_alloc_request.                                                     *)
(***************************************************************************)
RECURSIVE AllocSearch(_, _, _), AllocProbe(_, _, _, _)

\* AllocProbe comparing the id with the index alone, REQUEST_ID_OFFSET forgotten
AllocProbe_NoOffset(t, low, high, mid) ==
    Only({IF r.ptr = 0 THEN [ub |-> TRUE, low |-> low, probes |-> <<>>]
          ELSE IF U32(r.id) = mid
               THEN AllocSearch(t, mid, high)
               ELSE AllocSearch(t, low, mid)
             : r \in {index234(t, ToInt(mid))}})

\* the body of the while loop for the probed index mid; ub: index234 gave
\* NULL and r->id is read through it
AllocProbe(t, low, high, mid) ==
    Only({IF r.ptr = 0 THEN [ub |-> TRUE, low |-> low, probes |-> <<>>]
          ELSE IF U32(r.id) = U32Add(mid, U32(REQUEST_ID_OFFSET))
               THEN AllocSearch(t, mid, high)
               ELSE AllocSearch(t, low, mid)
             : r \in {index234(t, ToInt(mid))}})

\* AllocSearch whose sum high + low keeps its carry, as in a wider type
AllocSearch_NoWrap(t, low, high) ==
    IF ~U32Less(U32(1), U32Sub(high, low)) THEN [ub |-> FALSE, low |-> low, probes |-> <<>>]
    ELSE Only({Only({[r EXCEPT !.probes = <<[low |-> low, high |-> high, mid |-> mid]>> \o @]
                        : r \in {AllocProbe(t, low, high, mid)}})
                  : mid \in {IF U32Less(U32Add(high, low), high)
                              THEN U32Add(U32Div2(U32Add(high, low)), <<Half \div 2, 0>>)
                              ELSE U32Div2(U32Add(high, low))}})

\* the while loop, on unsigned low, high and mid; probes lists low, high and
\* mid of every iteration, in order
AllocSearch(t, low, high) ==
    IF ~U32Less(U32(1), U32Sub(high, low)) THEN [ub |-> FALSE, low |-> low, probes |-> <<>>]
    ELSE Only({Only({[r EXCEPT !.probes = <<[low |-> low, high |-> high, mid |-> mid]>> \o @]
                        : r \in {AllocProbe(t, low, high, mid)}})
                  : mid \in {U32Div2(U32Add(high, low))}})

\* the descriptor made for id i (unsigned) at address ptr, after the assert
AllocNew(t, ptr, ub, i) ==
    Only({[ub |-> ub, asserted |-> find234(t, i).ptr = 0, req |-> r, tree |-> add234(t, r),
           probes |-> <<>>]
             : r \in {[ptr |-> ptr, id |-> ToInt(i), registered |-> FALSE, userdata |-> 0]}})

\* sftp_alloc_request taking the id after the element count, with no search
sftp_alloc_request_Count(t, ptr) ==
    AllocNew(t, ptr, FALSE, U32(count234(t) + REQUEST_ID_OFFSET))

\* ptr is the address snew returns
sftp_alloc_request(t, ptr) ==
    Only({[AllocNew(t, ptr, s.ub, U32Add(U32Add(s.low, U32(1)), U32(REQUEST_ID_OFFSET)))
              EXCEPT !.probes = s.probes]
             : s \in {AllocSearch(t, U32Sub(U32(0), U32(1)), U32(count234(t)))}})

\* sftp_register, fxp_set_userdata: on the descriptor with pointer ptr
sftp_register(t, ptr) ==
    [i \in DOMAIN t |-> IF t[i].ptr = ptr THEN [t[i] EXCEPT !.registered = TRUE] ELSE t[i]]

fxp_set_userdata(t, ptr, data) ==
    [i \in DOMAIN t |-> IF t[i].ptr = ptr THEN [t[i] EXCEPT !.userdata = data] ELSE t[i]]

(***************************************************************************)
(* The error channel and sftp_find_request.                                *)
(***************************************************************************)
fxp_internal_error(msg) == [errtype |-> -1, message |-> msg]

\* FindById returning the descriptor and leaving it in the registry
FindById_NoDelete(t, g, e) ==
    Only({IF req.ptr = 0 \/ ~req.registered
          THEN [req |-> NullReq, tree |-> t, pkt |-> g.pkt, pktfreed |-> TRUE,
                err |-> fxp_internal_error("request ID mismatch\n")]
          ELSE [req |-> req, tree |-> t, pkt |-> g.pkt, pktfreed |-> FALSE, err |-> e]
             : req \in {find234(t, g.val)}})

\* FindById without the test of req->registered
FindById_AnyDescriptor(t, g, e) ==
    Only({IF req.ptr = 0
          THEN [req |-> NullReq, tree |-> t, pkt |-> g.pkt, pktfreed |-> TRUE,
                err |-> fxp_internal_error("request ID mismatch\n")]
          ELSE [req |-> req, tree |-> del234(t, req), pkt |-> g.pkt,
                pktfreed |-> FALSE, err |-> e]
             : req \in {find234(t, g.val)}})

\* sftp_find_request once the id has been read: g is what the getter returned
FindById(t, g, e) ==
    Only({IF req.ptr = 0 \/ ~req.registered
          THEN [req |-> NullReq, tree |-> t, pkt |-> g.pkt, pktfreed |-> TRUE,
                err |-> fxp_internal_error("request ID mismatch\n")]
          ELSE [req |-> req, tree |-> del234(t, req), pkt |-> g.pkt,
                pktfreed |-> FALSE, err |-> e]
             : req \in {find234(t, g.val)}})

\* e is the error channel before the call; pktfreed: sftp_pkt_free was called
sftp_find_request(t, pktin, e) ==
    IF pktin.null
    THEN [req |-> NullReq, tree |-> t, pkt |-> pktin, pktfreed |-> FALSE,
          err |-> fxp_internal_error("did not receive a valid SFTP packet\n")]
    ELSE Only({IF ~g.ok
               THEN [req |-> NullReq, tree |-> t, pkt |-> g.pkt, pktfreed |-> FALSE,
                     err |-> fxp_internal_error("did not receive a valid SFTP packet\n")]
               ELSE FindById(t, g, e)
                  : g \in {sftp_pkt_getuint32(pktin)}})

(***************************************************************************)
(* fxp_got_status.                                                         *)
(***************************************************************************)
messages ==
    <<"unexpected OK response", "end of file", "no such file or directory",
      "permission denied", "failure", "bad message", "no connection",
      "connection lost", "operation unsupported">>

\* the code's range test: the second comparison is made in size_t
StatusMessage(errtype) ==
    IF errtype < 0 \/ errtype >= Len(messages) THEN "unknown error code"
    ELSE messages[errtype + 1]

\* StatusReturn without the SSH_FX_EOF case
StatusReturn_NoEof(errtype) == IF errtype = SSH_FX_OK THEN 1 ELSE -1

StatusReturn(errtype) ==
    IF errtype = SSH_FX_OK THEN 1
    ELSE IF errtype = SSH_FX_EOF THEN 0
    ELSE -1

\* the error channel fxp_got_status leaves
StatusError(pktin) ==
    IF pktin.type # SSH_FXP_STATUS
    THEN [errtype |-> -1, message |-> "expected FXP_STATUS packet"]
    ELSE Only({IF ~g.ok
               THEN [errtype |-> -1, message |-> "malformed FXP_STATUS packet"]
               ELSE Only({[errtype |-> ul, message |-> StatusMessage(ul)]
                             : ul \in {ToInt(g.val)}})
                  : g \in {sftp_pkt_getuint32(pktin)}})

fxp_got_status(pktin) ==
    Only({[ret |-> StatusReturn(e.errtype), err |-> e] : e \in {StatusError(pktin)}})

(***************************************************************************)
(* fxp_init and fxp_readdir_recv.                                          *)
(***************************************************************************)
\* InitVersion accepting every readable version
InitVersion_AnyVersion(pktin, e) ==
    Only({IF ~g.ok
          THEN [ret |-> 0, err |-> fxp_internal_error("malformed FXP_VERSION packet"),
                pktfreed |-> TRUE]
          ELSE [ret |-> 1, err |-> e, pktfreed |-> TRUE]
             : g \in {sftp_pkt_getuint32(pktin)}})

\* the checks of fxp_init on the VERSION packet
InitVersion(pktin, e) ==
    Only({IF ~g.ok
          THEN [ret |-> 0, err |-> fxp_internal_error("malformed FXP_VERSION packet"),
                pktfreed |-> TRUE]
          ELSE IF U32Less(U32(SFTP_PROTO_VERSION), g.val)
          THEN [ret |-> 0,
                err |-> fxp_internal_error("remote protocol is more advanced than we support"),
                pktfreed |-> TRUE]
          ELSE [ret |-> 1, err |-> e, pktfreed |-> TRUE]
             : g \in {sftp_pkt_getuint32(pktin)}})

\* pktin is what sftp_recv returned; sent is the frame given to sftp_send
fxp_init(pktin, e) ==
    Only({[sent |-> sftp_send(sftp_pkt_adduint32(sftp_pkt_init(SSH_FXP_INIT),
                                                 U32(SFTP_PROTO_VERSION))),
           ret |-> r.ret, err |-> r.err, pktfreed |-> r.pktfreed]
             : r \in {IF pktin.null
                      THEN [ret |-> 0, err |-> fxp_internal_error("could not connect"),
                            pktfreed |-> FALSE]
                      ELSE IF pktin.type # SSH_FXP_VERSION
                      THEN [ret |-> 0,
                            err |-> fxp_internal_error("did not receive FXP_VERSION"),
                            pktfreed |-> TRUE]
                      ELSE InitVersion(pktin, e)}})

\* the copy mkstr makes: len bytes and a terminator
mkstr(str, len) == Slice(str, 0, len) \o <<Lit(0)>>

\* INT_MAX / sizeof(struct fxp_name), with pointers and longs of four bytes
NamesLimit == 2147483647 \div 40

\* what uninitialised storage for a struct fxp_attrs holds
NoAttrs ==
    [flags |-> U32(0), size |-> uint64_make(U32(0), U32(0)), uid |-> U32(0),
     gid |-> U32(0), permissions |-> U32(0), atime |-> U32(0), mtime |-> U32(0)]

\* what fxp_readdir_recv returns when it gives up: allocated tells whether the
\* names storage had been allocated, pktfreed whether sftp_pkt_free was called
NoNames(msg, allocated, pktfreed, pkt) ==
    [null |-> TRUE, names |-> <<>>, allocated |-> allocated, pktfreed |-> pktfreed,
     err |-> fxp_internal_error(msg), pkt |-> pkt]

\* the name read at the cursor: two strings and an attribute record
GetName(pkt, garbage) ==
    Only({IF ~s1.ok THEN [ok |-> FALSE, pkt |-> s1.pkt, name |-> <<>>]
          ELSE Only({IF ~s2.ok THEN [ok |-> FALSE, pkt |-> s2.pkt, name |-> <<>>]
                     ELSE Only({[ok |-> a.ok, pkt |-> a.pkt,
                                 name |-> <<[filename |-> mkstr(s1.str, s1.length),
                                             longname |-> mkstr(s2.str, s2.length),
                                             attrs |-> a.attrs]>>]
                                   : a \in {sftp_pkt_getattrs(s2.pkt, garbage)}})
                        : s2 \in {sftp_pkt_getstring(s1.pkt)}})
             : s1 \in {sftp_pkt_getstring(pkt)}})

\* the for loop of fxp_readdir_recv over nnames entries; on a failure the
\* packet is given to sfree, not to sftp_pkt_free
RECURSIVE ReaddirLoop(_, _, _, _, _)
ReaddirLoop(pkt, nnames, names, garbage, e) ==
    IF Len(names) = nnames
    THEN [null |-> FALSE, names |-> names, allocated |-> TRUE, pktfreed |-> TRUE,
          err |-> e, pkt |-> pkt]
    ELSE Only({IF ~g.ok THEN NoNames("malformed FXP_NAME packet", TRUE, FALSE, g.pkt)
               ELSE ReaddirLoop(g.pkt, nnames, names \o g.name, garbage, e)
                  : g \in {GetName(pkt, garbage)}})

\* ReaddirNames without the test of the count against the remaining bytes
ReaddirNames_NoCountCheck(pktin, garbage, e) ==
    Only({IF ~g.ok
          THEN NoNames("malformed FXP_NAME packet", FALSE, TRUE, g.pkt)
          ELSE ReaddirLoop(g.pkt, ToInt(g.val), <<>>, garbage, e)
             : g \in {sftp_pkt_getuint32(pktin)}})

\* fxp_readdir_recv on a NAME packet
ReaddirNames(pktin, garbage, e) ==
    Only({IF ~g.ok \/ U32Less(U32((g.pkt.length - g.pkt.savedpos) \div 12), g.val)
          THEN NoNames("malformed FXP_NAME packet", FALSE, TRUE, g.pkt)
          ELSE IF U32Less(U32(NamesLimit), g.val)
          THEN NoNames("unreasonably large FXP_NAME packet", FALSE, TRUE, g.pkt)
          ELSE ReaddirLoop(g.pkt, ToInt(g.val), <<>>, garbage, e)
             : g \in {sftp_pkt_getuint32(pktin)}})

\* garbage is what the storage for each entry's attrs holds when allocated
fxp_readdir_recv(pktin, garbage, e) ==
    IF pktin.type = SSH_FXP_NAME THEN ReaddirNames(pktin, garbage, e)
    ELSE [null |-> TRUE, names |-> <<>>, allocated |-> FALSE, pktfreed |-> TRUE,
          err |-> fxp_got_status(pktin).err, pkt |-> pktin]

(***************************************************************************)
(* The transfer engine.  A state of the engine and of what it shares with  *)
(* the registry and the server is a record                                 *)
(*   [xfer, rrq, tree, nalloc, outstanding, issued].                       *)
(***************************************************************************)
NullBuf == [ptr |-> 0, data |-> <<>>]

xfer_init(offset) ==
    [offset |-> offset,
     req_totalsize |-> 0,
     req_maxsize |-> ReqMaxSize,
     err |-> FALSE,
     eof |-> FALSE,
     filesize |-> uint64_make(ULONG_MAX, ULONG_MAX),
     furthestdata |-> uint64_make(U32(0), U32(0))]

\* xfer_done that does not look at the list
xfer_done_NoQueue(x, q) == x.eof \/ x.err

xfer_done(x, q) == (x.eof \/ x.err) /\ q = <<>>

\* the req record xfer_download_queue / xfer_upload_data links at the tail
NewReq(ptr, offset, len, buffer) ==
    [ptr |-> ptr, offset |-> offset, complete |-> 0, len |-> len, retlen |-> 0,
     buffer |-> buffer]

\* SendFor leaving xfer->offset where it was
SendFor_NoAdvance(st, kind, rr, a) ==
    Only({[xfer |-> [st.xfer EXCEPT !.req_totalsize = @ + rr.len],
           rrq |-> Append(st.rrq, rr),
           tree |-> fxp_set_userdata(sftp_register(a.tree, a.req.ptr), a.req.ptr, rr.ptr),
           nalloc |-> a.req.ptr,
           outstanding |-> st.outstanding \cup {o},
           issued |-> Append(st.issued, o)]
             : o \in {[id |-> a.req.id, kind |-> kind, offset |-> rr.offset, len |-> rr.len]}})

\* fxp_read_send / fxp_write_send, sftp_register and fxp_set_userdata for the
\* req record rr; a is what sftp_alloc_request returned
SendFor(st, kind, rr, a) ==
    Only({[xfer |-> [st.xfer EXCEPT !.offset = uint64_add32(@, U32(rr.len)),
                                    !.req_totalsize = @ + rr.len],
           rrq |-> Append(st.rrq, rr),
           tree |-> fxp_set_userdata(sftp_register(a.tree, a.req.ptr), a.req.ptr, rr.ptr),
           nalloc |-> a.req.ptr,
           outstanding |-> st.outstanding \cup {o},
           issued |-> Append(st.issued, o)]
             : o \in {[id |-> a.req.id, kind |-> kind, offset |-> rr.offset, len |-> rr.len]}})

\* one iteration of xfer_download_queue's loop
QueueRead(st) ==
    Only({SendFor(st, "read", rr, sftp_alloc_request(st.tree, rr.ptr + 2))
             : rr \in {NewReq(st.nalloc + 1, st.xfer.offset, ReadLen,
                              [ptr |-> st.nalloc + 2, data |-> <<>>])}})

\* xfer_download_queue without the tests of eof and err
RECURSIVE xfer_download_queue_Draining(_)
xfer_download_queue_Draining(st) ==
    IF st.xfer.req_totalsize < st.xfer.req_maxsize
    THEN Only({xfer_download_queue_Draining(s1) : s1 \in {QueueRead(st)}})
    ELSE st

\* xfer_download_queue issuing one READ per call with no test of the window
xfer_download_queue_NoWindow(st) ==
    IF ~st.xfer.eof /\ ~st.xfer.err THEN QueueRead(st) ELSE st

RECURSIVE xfer_download_queue(_)
xfer_download_queue(st) ==
    IF st.xfer.req_totalsize < st.xfer.req_maxsize /\ ~st.xfer.eof /\ ~st.xfer.err
    THEN Only({xfer_download_queue(s1) : s1 \in {QueueRead(st)}})
    ELSE st

xfer_download_init(st, offset) ==
    xfer_download_queue([st EXCEPT !.xfer = [xfer_init(offset) EXCEPT !.eof = FALSE]])

xfer_upload_init(st, offset) ==
    [st EXCEPT !.xfer = [xfer_init(offset) EXCEPT !.eof = TRUE]]

xfer_upload_ready(x) == IF x.req_totalsize < x.req_maxsize THEN 1 ELSE 0

xfer_upload_data(st, len) ==
    Only({SendFor(st, "write", rr, sftp_alloc_request(st.tree, rr.ptr + 1))
             : rr \in {NewReq(st.nalloc + 1, st.xfer.offset, len, NullBuf)}})

\* fxp_read_recv leaving the error channel alone when the string is too long
fxp_read_recv_StaleError(pktin, buf, len, e) ==
    IF pktin.type = SSH_FXP_DATA
    THEN Only({IF ~g.ok
               THEN [ret |-> -1, buf |-> buf,
                     err |-> fxp_internal_error("READ returned malformed SSH_FXP_DATA packet")]
               ELSE IF g.length > len \/ g.length < 0
               THEN [ret |-> -1, buf |-> buf, err |-> e]
               ELSE [ret |-> g.length, buf |-> g.str, err |-> e]
                  : g \in {sftp_pkt_getstring(pktin)}})
    ELSE [ret |-> -1, buf |-> buf, err |-> fxp_got_status(pktin).err]

\* fxp_read_recv; buf is the data the call leaves at the start of the buffer
fxp_read_recv(pktin, buf, len, e) ==
    IF pktin.type = SSH_FXP_DATA
    THEN Only({IF ~g.ok
               THEN [ret |-> -1, buf |-> buf,
                     err |-> fxp_internal_error("READ returned malformed SSH_FXP_DATA packet")]
               ELSE IF g.length > len \/ g.length < 0
               THEN [ret |-> -1, buf |-> buf,
                     err |-> fxp_internal_error("READ returned more bytes than requested")]
               ELSE [ret |-> g.length, buf |-> g.str, err |-> e]
                  : g \in {sftp_pkt_getstring(pktin)}})
    ELSE [ret |-> -1, buf |-> buf, err |-> fxp_got_status(pktin).err]

fxp_write_recv(pktin) ==
    Only({[ret |-> IF e.errtype = SSH_FX_OK THEN 1 ELSE 0, err |-> e]
             : e \in {fxp_got_status(pktin).err}})

\* position in the list of the req record a pointer denotes (0: none)
RrIndex(q, ptr) ==
    Only({IF hits = {} THEN 0 ELSE Only(hits) : hits \in {{i \in DOMAIN q : q[i].ptr = ptr}}})

xfer_set_error(x) == [x EXCEPT !.err = TRUE]

\* FurthestData taking the offset of every reply that carries data
FurthestData_Latest(x, rr) ==
    IF rr.retlen > 0 THEN [x EXCEPT !.furthestdata = rr.offset] ELSE x

\* the furthestdata update
FurthestData(x, rr) ==
    IF rr.retlen > 0 /\ uint64_compare(x.furthestdata, rr.offset) < 0
    THEN [x EXCEPT !.furthestdata = rr.offset] ELSE x

\* BelievedSize with the comparison of filesize turned round
BelievedSize_Raise(x, rr) ==
    IF rr.retlen < rr.len
    THEN Only({IF uint64_compare(x.filesize, filesize) < 0
               THEN [x EXCEPT !.filesize = filesize] ELSE x
                  : filesize \in {uint64_add32(rr.offset,
                                               U32(IF rr.retlen < 0 THEN 0 ELSE rr.retlen))}})
    ELSE x

\* the filesize update on a short read
BelievedSize(x, rr) ==
    IF rr.retlen < rr.len
    THEN Only({IF uint64_compare(x.filesize, filesize) > 0
               THEN [x EXCEPT !.filesize = filesize] ELSE x
                  : filesize \in {uint64_add32(rr.offset,
                                               U32(IF rr.retlen < 0 THEN 0 ELSE rr.retlen))}})
    ELSE x

\* ShortCheck that lets every reply through
ShortCheck_Never(x, rr, e) == [ret |-> 1, xfer |-> x, rr |-> rr, err |-> e]

\* the final test of furthestdata against filesize
ShortCheck(x, rr, e) ==
    IF uint64_compare(x.furthestdata, x.filesize) > 0
    THEN [ret |-> -1, xfer |-> xfer_set_error(x), rr |-> rr,
          err |-> [errtype |-> -1,
                   message |-> "received a short buffer from FXP_READ, but not at EOF"]]
    ELSE [ret |-> 1, xfer |-> x, rr |-> rr, err |-> e]

\* GotReply leaving the req record pending on an error other than EOF
GotReply_ErrorPending(x, rr, e) ==
    IF (rr.retlen < 0 /\ e.errtype = SSH_FX_EOF) \/ rr.retlen = 0
    THEN Only({ShortCheck(x3, [rr EXCEPT !.complete = 1], e)
                  : x3 \in {BelievedSize(FurthestData([x EXCEPT !.eof = TRUE], rr), rr)}})
    ELSE IF rr.retlen < 0
    THEN [ret |-> -1, xfer |-> xfer_set_error(x), rr |-> rr, err |-> e]
    ELSE Only({ShortCheck(x3, [rr EXCEPT !.complete = 1], e)
                  : x3 \in {BelievedSize(FurthestData(x, rr), rr)}})

\* xfer_download_gotpkt from the test of rr->retlen on; e is the error channel
\* fxp_read_recv left.  The assignment rr->complete = 1 follows the first
\* branch too, so it overwrites that branch's rr->complete = -1.
GotReply(x, rr, e) ==
    IF (rr.retlen < 0 /\ e.errtype = SSH_FX_EOF) \/ rr.retlen = 0
    THEN Only({ShortCheck(x3, [rr EXCEPT !.complete = 1], e)
                  : x3 \in {BelievedSize(FurthestData([x EXCEPT !.eof = TRUE], rr), rr)}})
    ELSE IF rr.retlen < 0
    THEN [ret |-> -1, xfer |-> xfer_set_error(x),
          rr |-> [rr EXCEPT !.complete = -1], err |-> e]
    ELSE Only({ShortCheck(x3, [rr EXCEPT !.complete = 1], e)
                  : x3 \in {BelievedSize(FurthestData(x, rr), rr)}})

\* xfer_download_gotpkt after the lookup: f is what sftp_find_request returned
\* and i the place of the req record rreq->userdata points to
DownloadReply(st, f, i) ==
    Only({Only({[ret |-> g.ret, ub |-> FALSE, xfer |-> g.xfer,
                 rrq |-> [st.rrq EXCEPT ![i] = g.rr], tree |-> f.tree,
                 err |-> g.err, pktfreed |-> TRUE, reqfreed |-> f.req.ptr]
                   : g \in {GotReply(st.xfer,
                                     [st.rrq[i] EXCEPT !.retlen = rd.ret,
                                                       !.buffer.data = rd.buf],
                                     rd.err)}})
             : rd \in {fxp_read_recv(f.pkt, st.rrq[i].buffer.data, st.rrq[i].len, f.err)}})

\* NotOurs marking the transfer failed
NotOurs_Error(st, f, ub) ==
    [ret |-> 0, ub |-> ub, xfer |-> xfer_set_error(st.xfer), rrq |-> st.rrq, tree |-> f.tree,
     err |-> f.err, pktfreed |-> f.pktfreed, reqfreed |-> 0]

\* what a gotpkt function returns when it does not reach its receiver.  ub:
\* rreq is NULL and is passed to fxp_get_userdata, or rr points to no record
NotOurs(st, f, ub) ==
    [ret |-> 0, ub |-> ub, xfer |-> st.xfer, rrq |-> st.rrq, tree |-> f.tree,
     err |-> f.err, pktfreed |-> f.pktfreed, reqfreed |-> 0]

\* e is the error channel before the call
xfer_download_gotpkt(st, pktin, e) ==
    Only({IF f.req.ptr = 0 THEN NotOurs(st, f, TRUE)
          ELSE IF f.req.userdata = 0 THEN NotOurs(st, f, FALSE)
          ELSE Only({IF i = 0 THEN NotOurs(st, f, TRUE) ELSE DownloadReply(st, f, i)
                        : i \in {RrIndex(st.rrq, f.req.userdata)}})
             : f \in {sftp_find_request(st.tree, pktin, e)}})

\* a loop that goes on past the first successful record
RECURSIVE DownloadDataLoop_All(_, _, _)
DownloadDataLoop_All(x, q, acc) ==
    IF q # <<>> /\ Head(q).complete # 0
    THEN Only({DownloadDataLoop_All(x1, Tail(q), a1)
                  : x1 \in {[x EXCEPT !.req_totalsize = @ - Head(q).len]},
                    a1 \in {IF Head(q).complete > 0
                            THEN [retbuf |-> Head(q).buffer, retlen |-> Head(q).retlen,
                                  popped |-> Append(acc.popped, Head(q))]
                            ELSE [acc EXCEPT !.popped = Append(@, Head(q))]}})
    ELSE [xfer |-> x, rrq |-> q, retbuf |-> acc.retbuf, retlen |-> acc.retlen,
          popped |-> acc.popped, ret |-> IF acc.retbuf.ptr # 0 THEN 1 ELSE 0]

\* a loop that unlinks the first completed record wherever it is in the list
DownloadDataLoop_Anywhere(x, q, acc) ==
    Only({IF done = {} THEN [xfer |-> x, rrq |-> q, retbuf |-> NullBuf, retlen |-> 0,
                             popped |-> <<>>, ret |-> 0]
          ELSE Only({[xfer |-> [x EXCEPT !.req_totalsize = @ - q[k].len],
                      rrq |-> SubSeq(q, 1, k - 1) \o SubSeq(q, k + 1, Len(q)),
                      retbuf |-> IF q[k].complete > 0 THEN q[k].buffer ELSE NullBuf,
                      retlen |-> IF q[k].complete > 0 THEN q[k].retlen ELSE 0,
                      popped |-> <<q[k]>>,
                      ret |-> IF q[k].complete > 0 THEN 1 ELSE 0]
                        : k \in {CHOOSE m \in done : \A n \in done : m <= n}})
             : done \in {{i \in DOMAIN q : q[i].complete # 0}}})

\* the loop of xfer_download_data; acc carries retbuf, retlen and the popped
RECURSIVE DownloadDataLoop(_, _, _)
DownloadDataLoop(x, q, acc) ==
    IF q # <<>> /\ Head(q).complete # 0 /\ acc.retbuf.ptr = 0
    THEN Only({DownloadDataLoop(x1, Tail(q), a1)
                  : x1 \in {[x EXCEPT !.req_totalsize = @ - Head(q).len]},
                    a1 \in {IF Head(q).complete > 0
                            THEN [retbuf |-> Head(q).buffer, retlen |-> Head(q).retlen,
                                  popped |-> Append(acc.popped, Head(q))]
                            ELSE [acc EXCEPT !.popped = Append(@, Head(q))]}})
    ELSE [xfer |-> x, rrq |-> q, retbuf |-> acc.retbuf, retlen |-> acc.retlen,
          popped |-> acc.popped, ret |-> IF acc.retbuf.ptr # 0 THEN 1 ELSE 0]

\* xfer_download_data that hands back a successful head and discards nothing
xfer_download_data_KeepFailed(x, q) ==
    IF q # <<>> /\ Head(q).complete > 0
    THEN [xfer |-> [x EXCEPT !.req_totalsize = @ - Head(q).len], rrq |-> Tail(q),
          retbuf |-> Head(q).buffer, retlen |-> Head(q).retlen, popped |-> <<Head(q)>>,
          ret |-> 1]
    ELSE [xfer |-> x, rrq |-> q, retbuf |-> NullBuf, retlen |-> 0, popped |-> <<>>, ret |-> 0]

xfer_download_data(x, q) ==
    DownloadDataLoop(x, q, [retbuf |-> NullBuf, retlen |-> 0, popped |-> <<>>])

\* UploadReply unlinking the head of the list, whichever write was acknowledged
UploadReply_Head(st, f, i) ==
    Only({[ret |-> IF w.ret = 0 THEN -1 ELSE 1, ub |-> FALSE,
           xfer |-> [st.xfer EXCEPT !.req_totalsize = @ - Head(st.rrq).len],
           rrq |-> Tail(st.rrq),
           tree |-> f.tree, err |-> w.err, pktfreed |-> TRUE, reqfreed |-> f.req.ptr]
             : w \in {fxp_write_recv(f.pkt)}})

\* UploadReply leaving the req record of a failed write in the list
UploadReply_KeepsFailed(st, f, i) ==
    Only({IF w.ret = 0
          THEN [ret |-> -1, ub |-> FALSE, xfer |-> st.xfer, rrq |-> st.rrq,
                tree |-> f.tree, err |-> w.err, pktfreed |-> TRUE, reqfreed |-> f.req.ptr]
          ELSE [ret |-> 1, ub |-> FALSE,
                xfer |-> [st.xfer EXCEPT !.req_totalsize = @ - st.rrq[i].len],
                rrq |-> SubSeq(st.rrq, 1, i - 1) \o SubSeq(st.rrq, i + 1, Len(st.rrq)),
                tree |-> f.tree, err |-> w.err, pktfreed |-> TRUE, reqfreed |-> f.req.ptr]
             : w \in {fxp_write_recv(f.pkt)}})

\* UploadReply unlinking the record without taking its length off req_totalsize
UploadReply_NoSubtract(st, f, i) ==
    Only({[ret |-> IF w.ret = 0 THEN -1 ELSE 1, ub |-> FALSE, xfer |-> st.xfer,
           rrq |-> SubSeq(st.rrq, 1, i - 1) \o SubSeq(st.rrq, i + 1, Len(st.rrq)),
           tree |-> f.tree, err |-> w.err, pktfreed |-> TRUE, reqfreed |-> f.req.ptr]
             : w \in {fxp_write_recv(f.pkt)}})

\* xfer_upload_gotpkt after the lookup
UploadReply(st, f, i) ==
    Only({[ret |-> IF w.ret = 0 THEN -1 ELSE 1, ub |-> FALSE,
           xfer |-> [st.xfer EXCEPT !.req_totalsize = @ - st.rrq[i].len],
           rrq |-> SubSeq(st.rrq, 1, i - 1) \o SubSeq(st.rrq, i + 1, Len(st.rrq)),
           tree |-> f.tree, err |-> w.err, pktfreed |-> TRUE, reqfreed |-> f.req.ptr]
             : w \in {fxp_write_recv(f.pkt)}})

xfer_upload_gotpkt(st, pktin, e) ==
    Only({IF f.req.ptr = 0 THEN NotOurs(st, f, TRUE)
          ELSE IF f.req.userdata = 0 THEN NotOurs(st, f, FALSE)
          ELSE Only({IF i = 0 THEN NotOurs(st, f, TRUE) ELSE UploadReply(st, f, i)
                        : i \in {RrIndex(st.rrq, f.req.userdata)}})
             : f \in {sftp_find_request(st.tree, pktin, e)}})

\* the loop of xfer_cleanup: fr lists the pointers given to sfree so far (a
\* NULL buffer, as an upload's, is given to sfree too and nothing is freed)
RECURSIVE CleanupLoop(_, _)
CleanupLoop(q, fr) ==
    IF q = <<>> THEN fr
    ELSE CleanupLoop(Tail(q),
                     fr \o (IF Head(q).buffer.ptr # 0 THEN <<Head(q).buffer.ptr>> ELSE <<>>)
                        \o <<Head(q).ptr>>)

\* xfer_cleanup: every req record and its buffer are freed, then the transfer;
\* the registry is not touched
xfer_cleanup(st, fr) ==
    [rrq |-> <<>>, tree |-> st.tree, freed |-> CleanupLoop(st.rrq, fr)]

(***************************************************************************)
(* The environment: frames the server sends.                               *)
(***************************************************************************)
NoRequest == [id |-> 0, kind |-> "none", offset |-> uint64_make(U32(0), U32(0)), len |-> 0]

NoReply == [t |-> "none", n |-> 0]

Last(op, ret, req, pkt, pktfreed) ==
    [op |-> op, ret |-> ret, req |-> req, pkt |-> pkt, pktfreed |-> pktfreed,
     asserted |-> TRUE, ub |-> FALSE, o |-> NoRequest, rep |-> NoReply, probes |-> <<>>]

NoXfer == [xfer_init(uint64_make(U32(0), U32(0))) EXCEPT !.req_maxsize = 0]

NoEnv == [dir |-> "none", size |-> 0, start |-> 0, bad |-> 0, ooo |-> FALSE,
          seterr |-> FALSE]

\* a status code with the top bit set, and the all-ones code
TopBit == <<Half \div 2, 0>>
AllOnes == <<Half - 1, Half - 1>>

StatusCodes ==
    {U32(c) : c \in 0 .. MaxCode} \cup {U32(255), TopBit, U32Add(TopBit, U32(1)), AllOnes}

\* ids a reply may carry: around the allocated range, and one beyond 2^31
ReplyIds ==
    {U32(i) : i \in (REQUEST_ID_OFFSET - 1) .. (REQUEST_ID_OFFSET + MaxReqs)}
        \cup {U32Add(TopBit, U32(REQUEST_ID_OFFSET))}

\* a STATUS reply carries the id, the code, a message and a language tag
StatusFrame(type, id, code) ==
    <<Lit(type)>> \o PUT_32BIT(id) \o PUT_32BIT(code)
        \o PUT_32BIT(U32(0)) \o PUT_32BIT(U32(0))

\* a DATA reply: the id and a string declared `declared` long holding n file bytes
DataFrame(id, declared, off, n) ==
    <<Lit(SSH_FXP_DATA)>> \o PUT_32BIT(id) \o PUT_32BIT(U32(declared))
        \o (IF n > 0 THEN <<Run(off, n)>> ELSE <<>>)

\* the first k bytes of a frame
Truncate(frame, k) == Slice(frame, 0, k)

RegistryFrames ==
    {StatusFrame(SSH_FXP_STATUS, id, U32(SSH_FX_OK)) : id \in ReplyIds}
        \cup {Truncate(StatusFrame(SSH_FXP_STATUS, U32(REQUEST_ID_OFFSET), U32(SSH_FX_OK)), k)
                 : k \in 0 .. 4}

StatusFrames ==
    {StatusFrame(t, U32(REQUEST_ID_OFFSET), c)
        : t \in {SSH_FXP_STATUS, SSH_FXP_HANDLE, SSH_FXP_DATA}, c \in StatusCodes}
        \cup {Truncate(StatusFrame(SSH_FXP_STATUS, U32(REQUEST_ID_OFFSET), U32(SSH_FX_OK)), k)
                 : k \in 5 .. 8}

(***************************************************************************)
(* The registry specification: callers allocate, register and resolve      *)
(* requests, and decode STATUS replies.                                    *)
(***************************************************************************)
ErrChannel == [errtype |-> fxp_errtype, message |-> fxp_error_message]

Init ==
    /\ sftp_requests = <<>>
    /\ fxp_errtype = 0
    /\ fxp_error_message = "NULL"
    /\ nalloc = 0
    /\ xfer = NoXfer
    /\ rrq = <<>>
    /\ outstanding = {}
    /\ issued = <<>>
    /\ delivered = <<>>
    /\ freed = <<>>
    /\ env = NoEnv
    /\ last = Last("init", 0, NullReq, NullPkt, FALSE)

XferUnchanged == UNCHANGED <<xfer, rrq, outstanding, issued, delivered, freed, env>>

\* a caller's fxp_*_send: sftp_alloc_request
AllocRequest ==
    /\ env.dir = "none"
    /\ ~last.ub
    /\ Len(sftp_requests) < MaxReqs
    /\ nalloc < MaxAllocs
    /\ \E a \in {sftp_alloc_request(sftp_requests, nalloc + 1)} :
       /\ sftp_requests' = IF a.ub \/ ~a.asserted THEN sftp_requests ELSE a.tree
       /\ last' = [Last("alloc", 0, a.req, NullPkt, FALSE)
                     EXCEPT !.asserted = a.asserted, !.ub = a.ub, !.probes = a.probes]
    /\ nalloc' = nalloc + 1
    /\ UNCHANGED <<fxp_errtype, fxp_error_message>>
    /\ XferUnchanged

\* a caller's sftp_register on a descriptor it holds
Register ==
    /\ env.dir = "none"
    /\ ~last.ub
    /\ \E i \in DOMAIN sftp_requests :
          /\ ~sftp_requests[i].registered
          /\ sftp_requests' = sftp_register(sftp_requests, sftp_requests[i].ptr)
          /\ last' = Last("register", 0, sftp_requests'[i], NullPkt, FALSE)
    /\ UNCHANGED <<fxp_errtype, fxp_error_message, nalloc>>
    /\ XferUnchanged

\* sftp_find_request on what sftp_recv returned (NULL included)
FindRequest ==
    /\ env.dir = "none"
    /\ ~last.ub
    /\ \E pktin \in {sftp_recv(fr) : fr \in RegistryFrames} :
       \E f \in {sftp_find_request(sftp_requests, pktin, ErrChannel)} :
              /\ sftp_requests' = f.tree
              /\ fxp_errtype' = f.err.errtype
              /\ fxp_error_message' = f.err.message
              /\ last' = Last("find", 0, f.req, pktin, f.pktfreed)
    /\ UNCHANGED nalloc
    /\ XferUnchanged

\* fxp_got_status on a reply whose id has been read
GotStatus ==
    /\ env.dir = "none"
    /\ ~last.ub
    /\ \E pktin \in {sftp_pkt_getuint32(sftp_recv(fr)).pkt : fr \in StatusFrames} :
       \E g \in {fxp_got_status(pktin)} :
              /\ fxp_errtype' = g.err.errtype
              /\ fxp_error_message' = g.err.message
              /\ last' = Last("status", g.ret, NullReq, pktin, FALSE)
    /\ UNCHANGED <<sftp_requests, nalloc>>
    /\ XferUnchanged

Next == AllocRequest \/ Register \/ FindRequest

Spec == Init /\ [][Next]_vars

\* the STATUS decoder applied to every reply of StatusFrames
NextStatus == GotStatus

SpecStatus == Init /\ [][NextStatus]_vars

(***************************************************************************)
(* The search specification: sftp_alloc_request applied to every registry  *)
(* whose ids are among the first MaxSearchIds, and to the registries that  *)
(* follow from it.                                                         *)
(***************************************************************************)
MaxSearchIds == 8

\* the registry that holds the ids of S
RECURSIVE TreeOf(_)
TreeOf(S) ==
    IF S = {} THEN <<>>
    ELSE Only({Append(TreeOf(S \ {m}),
                      [ptr |-> m - REQUEST_ID_OFFSET + 1, id |-> m, registered |-> TRUE,
                       userdata |-> 0])
                  : m \in {CHOOSE x \in S : \A y \in S : y <= x}})

InitSearch ==
    \E S \in SUBSET (REQUEST_ID_OFFSET .. (REQUEST_ID_OFFSET + MaxSearchIds - 1)) :
        /\ sftp_requests = TreeOf(S)
        /\ fxp_errtype = 0
        /\ fxp_error_message = "NULL"
        /\ nalloc = MaxSearchIds
        /\ xfer = NoXfer
        /\ rrq = <<>>
        /\ outstanding = {}
        /\ issued = <<>>
        /\ delivered = <<>>
        /\ freed = <<>>
        /\ env = [NoEnv EXCEPT !.dir = "search"]
        /\ last = Last("init", 0, NullReq, NullPkt, FALSE)

SearchAlloc ==
    /\ env.dir = "search"
    /\ ~last.ub
    /\ Len(sftp_requests) <= MaxSearchIds
    /\ \E a \in {sftp_alloc_request(sftp_requests, nalloc + 1)} :
       /\ sftp_requests' = IF a.ub \/ ~a.asserted THEN sftp_requests ELSE a.tree
       /\ last' = [Last("alloc", 0, a.req, NullPkt, FALSE)
                     EXCEPT !.asserted = a.asserted, !.ub = a.ub, !.probes = a.probes]
    /\ nalloc' = nalloc + 1
    /\ UNCHANGED <<fxp_errtype, fxp_error_message>>
    /\ XferUnchanged

NextSearch == SearchAlloc

SpecSearch == InitSearch /\ [][NextSearch]_vars


(***************************************************************************)
(* The transfer specification: one download or one upload, its caller and  *)
(* the server.  The server answers the outstanding requests in any order;  *)
(* a download's reply obeys the file (GoodReply) or, at most MaxBadReplies *)
(* times, is any other member of DownloadReplies.                          *)
(***************************************************************************)
OffNat(off) == ToInt(off[2])

\* an empty file, a short one, one of exactly a block, one of a block and a bit
FileSizes == {0, 1696, ReadLen, ReadLen + 1696}
StartOffsets == {0, 1000}
UploadLens == {0, 4096}

Min(a, b) == IF a < b THEN a ELSE b

GoodReply(o) ==
    IF OffNat(o.offset) < env.size
    THEN [t |-> "data", n |-> Min(o.len, env.size - OffNat(o.offset))]
    ELSE [t |-> "status", n |-> SSH_FX_EOF]

DownloadReplies ==
    {[t |-> "data", n |-> n] : n \in {0, 1696, ReadLen, ReadLen + 1}}
        \cup {[t |-> "status", n |-> c] : c \in {SSH_FX_OK, SSH_FX_EOF, SSH_FX_FAILURE}}
        \cup {[t |-> "trunc", n |-> 1696], [t |-> "negative", n |-> 1696],
              [t |-> "other", n |-> 0]}

UploadReplies ==
    {[t |-> "status", n |-> c] : c \in {SSH_FX_OK, SSH_FX_FAILURE}}
        \cup {[t |-> "trunc", n |-> 0], [t |-> "other", n |-> 0]}

\* the frame of reply rep to request o; "trunc" is cut short of what it declares
ReplyFrame(o, rep) ==
    CASE rep.t = "data" -> DataFrame(U32(o.id), rep.n, OffNat(o.offset), rep.n)
      [] rep.t = "status" -> StatusFrame(SSH_FXP_STATUS, U32(o.id), U32(rep.n))
      [] rep.t = "trunc" ->
            IF o.kind = "read"
            THEN DataFrame(U32(o.id), rep.n + 1, OffNat(o.offset), rep.n)
            ELSE Truncate(StatusFrame(SSH_FXP_STATUS, U32(o.id), U32(SSH_FX_OK)), 7)
      [] rep.t = "negative" ->
            <<Lit(SSH_FXP_DATA)>> \o PUT_32BIT(U32(o.id)) \o PUT_32BIT(AllOnes)
                \o <<Run(OffNat(o.offset), rep.n)>>
      [] OTHER -> StatusFrame(SSH_FXP_HANDLE, U32(o.id), U32(0))

NoEngine ==
    [xfer |-> NoXfer, rrq |-> <<>>, tree |-> <<>>, nalloc |-> 0,
     outstanding |-> {}, issued |-> <<>>]

EngineState ==
    [xfer |-> xfer, rrq |-> rrq, tree |-> sftp_requests, nalloc |-> nalloc,
     outstanding |-> outstanding, issued |-> issued]

\* the state after xfer_download_init or xfer_upload_init
InitXfer ==
    \E dir \in {"download", "upload"}, size \in FileSizes, start \in StartOffsets :
        \E st \in {IF dir = "download" THEN xfer_download_init(NoEngine, U64(start))
                    ELSE xfer_upload_init(NoEngine, U64(start))} :
            /\ dir = "upload" => size = 0
            /\ xfer = st.xfer
            /\ rrq = st.rrq
            /\ sftp_requests = st.tree
            /\ nalloc = st.nalloc
            /\ outstanding = st.outstanding
            /\ issued = st.issued
            /\ env = [NoEnv EXCEPT !.dir = dir, !.size = size, !.start = start]
            /\ fxp_errtype = 0
            /\ fxp_error_message = "NULL"
            /\ delivered = <<>>
            /\ freed = <<>>
            /\ last = Last("init", 0, NullReq, NullPkt, FALSE)

XferDownloadQueue ==
    /\ env.dir = "download"
    /\ ~last.ub
    /\ \E st \in {xfer_download_queue(EngineState)} :
       /\ xfer' = st.xfer
       /\ rrq' = st.rrq
       /\ sftp_requests' = st.tree
       /\ nalloc' = st.nalloc
       /\ outstanding' = st.outstanding
       /\ issued' = st.issued
    /\ last' = Last("queue", 0, NullReq, NullPkt, FALSE)
    /\ UNCHANGED <<fxp_errtype, fxp_error_message, delivered, freed, env>>

\* the server answers request o; the caller passes the packet to the engine
XferDownloadGotpkt ==
    /\ env.dir = "download"
    /\ ~last.ub
    /\ \E o \in outstanding :
       \E rep \in {GoodReply(o)} \cup (IF env.bad < MaxBadReplies THEN DownloadReplies ELSE {}) :
       \E pktin \in {sftp_recv(ReplyFrame(o, rep))} :
       \E r \in {xfer_download_gotpkt(EngineState, pktin, ErrChannel)} :
              /\ xfer' = r.xfer
              /\ rrq' = r.rrq
              /\ sftp_requests' = r.tree
              /\ fxp_errtype' = r.err.errtype
              /\ fxp_error_message' = r.err.message
              /\ outstanding' = outstanding \ {o}
              /\ env' = [env EXCEPT
                           !.bad = IF rep = GoodReply(o) THEN @ ELSE @ + 1,
                           !.ooo = @ \/ \E p \in outstanding :
                                           OffNat(p.offset) < OffNat(o.offset)]
              /\ last' = [Last("gotpkt", r.ret, NullReq, pktin, r.pktfreed)
                            EXCEPT !.ub = r.ub, !.o = o, !.rep = rep]
    /\ UNCHANGED <<nalloc, issued, delivered, freed>>

\* the consumer's xfer_download_data
XferDownloadData ==
    /\ env.dir = "download"
    /\ ~last.ub
    /\ \E r \in {xfer_download_data(xfer, rrq)} :
       /\ xfer' = r.xfer
       /\ rrq' = r.rrq
       /\ delivered' = IF r.ret = 1
                       THEN Append(delivered, [buf |-> r.retbuf, len |-> r.retlen])
                       ELSE delivered
       /\ freed' = freed \o [k \in DOMAIN r.popped |-> r.popped[k].ptr]
       /\ last' = Last("data", r.ret, NullReq, NullPkt, FALSE)
    /\ UNCHANGED <<sftp_requests, fxp_errtype, fxp_error_message, nalloc,
                   outstanding, issued, env>>

\* the producer's xfer_upload_data
XferUploadData ==
    /\ env.dir = "upload"
    /\ ~last.ub
    /\ Len(issued) < MaxWrites
    /\ \E len \in UploadLens :
       \E st \in {xfer_upload_data(EngineState, len)} :
          /\ xfer' = st.xfer
          /\ rrq' = st.rrq
          /\ sftp_requests' = st.tree
          /\ nalloc' = st.nalloc
          /\ outstanding' = st.outstanding
          /\ issued' = st.issued
    /\ last' = Last("upload", 0, NullReq, NullPkt, FALSE)
    /\ UNCHANGED <<fxp_errtype, fxp_error_message, delivered, freed, env>>

XferUploadGotpkt ==
    /\ env.dir = "upload"
    /\ ~last.ub
    /\ \E o \in outstanding, rep \in UploadReplies :
       \E pktin \in {sftp_recv(ReplyFrame(o, rep))} :
       \E r \in {xfer_upload_gotpkt(EngineState, pktin, ErrChannel)} :
              /\ xfer' = r.xfer
              /\ rrq' = r.rrq
              /\ sftp_requests' = r.tree
              /\ fxp_errtype' = r.err.errtype
              /\ fxp_error_message' = r.err.message
              /\ outstanding' = outstanding \ {o}
              /\ env' = [env EXCEPT
                           !.ooo = @ \/ \E p \in outstanding :
                                           OffNat(p.offset) < OffNat(o.offset)]
              /\ last' = [Last("gotpkt", r.ret, NullReq, pktin, r.pktfreed)
                            EXCEPT !.ub = r.ub, !.o = o, !.rep = rep]
    /\ UNCHANGED <<nalloc, issued, delivered, freed>>

\* the caller's xfer_set_error
XferSetError ==
    /\ env.dir # "none"
    /\ ~last.ub
    /\ xfer' = xfer_set_error(xfer)
    /\ env' = [env EXCEPT !.seterr = TRUE]
    /\ last' = Last("set_error", 0, NullReq, NullPkt, FALSE)
    /\ UNCHANGED <<sftp_requests, fxp_errtype, fxp_error_message, nalloc, rrq,
                   outstanding, issued, delivered, freed>>

NextXfer ==
    \/ XferDownloadQueue
    \/ XferDownloadGotpkt
    \/ XferDownloadData
    \/ XferUploadData
    \/ XferUploadGotpkt
    \/ XferSetError

SpecXfer == InitXfer /\ [][NextXfer]_vars

\* downloads of a file shorter than a block, from offset 0, in which the
\* server answers every request and the consumer goes on calling
\* xfer_download_data
InitLive == InitXfer /\ env.dir = "download" /\ env.start = 0 /\ env.size = 1696

NextLive == XferDownloadQueue \/ XferDownloadGotpkt \/ XferDownloadData

SpecLive ==
    InitLive /\ [][NextLive]_vars /\ WF_vars(XferDownloadGotpkt) /\ WF_vars(XferDownloadData)

(***************************************************************************)
(* The abort specification: a transfer of one window (no refill) whose     *)
(* caller asks xfer_done, and may give it up with xfer_cleanup while       *)
(* requests are outstanding; replies arrive afterwards, for the ids of     *)
(* those requests or for an id the registry has never held, and the caller *)
(* passes them to the gotpkt function of the transfer's kind.              *)
(***************************************************************************)
UnknownId == REQUEST_ID_OFFSET - 1

LateFrames ==
    {StatusFrame(SSH_FXP_STATUS, U32(id), U32(SSH_FX_OK))
        : id \in {o.id : o \in outstanding} \cup {UnknownId}}
        \cup {DataFrame(U32(id), 0, 0, 0) : id \in {o.id : o \in outstanding} \cup {UnknownId}}

\* the caller's xfer_cleanup
XferCleanup ==
    /\ env.dir \in {"download", "upload"}
    /\ ~last.ub
    /\ \E c \in {xfer_cleanup(EngineState, freed)} :
       /\ xfer' = NoXfer
       /\ rrq' = c.rrq
       /\ sftp_requests' = c.tree
       /\ freed' = c.freed
    /\ env' = [env EXCEPT !.dir = IF env.dir = "download" THEN "aborted download"
                                  ELSE "aborted upload"]
    /\ last' = Last("cleanup", 0, NullReq, NullPkt, FALSE)
    /\ UNCHANGED <<fxp_errtype, fxp_error_message, nalloc, outstanding, issued, delivered>>

\* a reply that arrives after xfer_cleanup, given to xfer_download_gotpkt
LateDownloadGotpkt ==
    /\ env.dir = "aborted download"
    /\ ~last.ub
    /\ \E pktin \in {sftp_recv(fr) : fr \in LateFrames} :
       \E r \in {xfer_download_gotpkt(EngineState, pktin, ErrChannel)} :
              /\ xfer' = r.xfer
              /\ rrq' = r.rrq
              /\ sftp_requests' = r.tree
              /\ fxp_errtype' = r.err.errtype
              /\ fxp_error_message' = r.err.message
              /\ last' = [Last("gotpkt", r.ret, NullReq, pktin, r.pktfreed) EXCEPT !.ub = r.ub]
    /\ UNCHANGED <<nalloc, outstanding, issued, delivered, freed, env>>

\* a reply that arrives after xfer_cleanup, given to xfer_upload_gotpkt
LateUploadGotpkt ==
    /\ env.dir = "aborted upload"
    /\ ~last.ub
    /\ \E pktin \in {sftp_recv(fr) : fr \in LateFrames} :
       \E r \in {xfer_upload_gotpkt(EngineState, pktin, ErrChannel)} :
              /\ xfer' = r.xfer
              /\ rrq' = r.rrq
              /\ sftp_requests' = r.tree
              /\ fxp_errtype' = r.err.errtype
              /\ fxp_error_message' = r.err.message
              /\ last' = [Last("gotpkt", r.ret, NullReq, pktin, r.pktfreed) EXCEPT !.ub = r.ub]
    /\ UNCHANGED <<nalloc, outstanding, issued, delivered, freed, env>>

\* the caller's xfer_done
XferDone ==
    /\ env.dir \in {"download", "upload"}
    /\ ~last.ub
    /\ last' = Last("done", IF xfer_done(xfer, rrq) THEN 1 ELSE 0, NullReq, NullPkt, FALSE)
    /\ UNCHANGED <<sftp_requests, fxp_errtype, fxp_error_message, nalloc, xfer, rrq,
                   outstanding, issued, delivered, freed, env>>

\* another consumer's request, allocated and registered with no userdata,
\* is answered, and the caller offers the reply to the transfer first
ForeignGotpkt ==
    /\ env.dir \in {"download", "upload"}
    /\ ~last.ub
    /\ env.bad < MaxBadReplies
    /\ \E a \in {sftp_alloc_request(sftp_requests, nalloc + 1)} :
       \E st \in {[EngineState EXCEPT !.tree = sftp_register(a.tree, a.req.ptr)]} :
       \E pktin \in {sftp_recv(StatusFrame(SSH_FXP_STATUS, U32(a.req.id), U32(SSH_FX_OK)))} :
       \E r \in {IF env.dir = "download" THEN xfer_download_gotpkt(st, pktin, ErrChannel)
                 ELSE xfer_upload_gotpkt(st, pktin, ErrChannel)} :
              /\ xfer' = r.xfer
              /\ rrq' = r.rrq
              /\ sftp_requests' = r.tree
              /\ fxp_errtype' = r.err.errtype
              /\ fxp_error_message' = r.err.message
              /\ nalloc' = a.req.ptr
              /\ last' = [Last("foreign", r.ret, a.req, pktin, r.pktfreed) EXCEPT !.ub = r.ub]
    /\ env' = [env EXCEPT !.bad = @ + 1]
    /\ UNCHANGED <<outstanding, issued, delivered, freed>>

NextAbort ==
    \/ XferDownloadGotpkt
    \/ XferDownloadData
    \/ XferUploadData
    \/ XferUploadGotpkt
    \/ XferDone
    \/ XferCleanup
    \/ LateDownloadGotpkt
    \/ LateUploadGotpkt
    \/ ForeignGotpkt

SpecAbort == InitXfer /\ [][NextAbort]_vars

(***************************************************************************)
(* The codec specification: the session start, the directory listing       *)
(* decoder, and the packet builder against the getters, each applied to    *)
(* the inputs of its set.                                                  *)
(***************************************************************************)
\* one extension pair: a name and its data, each a length and that many bytes
ExtensionPair == PUT_32BIT(U32(1)) \o <<Lit(110)>> \o PUT_32BIT(U32(1)) \o <<Lit(49)>>

\* what sftp_recv may return to fxp_init: nothing; a frame of type VERSION, INIT
\* or STATUS with a version word and perhaps an extension pair; a VERSION
\* frame cut inside the version
InitReplies ==
    {NullPkt}
        \cup {sftp_recv(<<Lit(t)>> \o PUT_32BIT(v) \o x)
                 : t \in {SSH_FXP_VERSION, SSH_FXP_INIT, SSH_FXP_STATUS},
                   v \in {U32(n) : n \in 0 .. 5} \cup {<<1, 3>>, TopBit, AllOnes},
                   x \in {<<>>, ExtensionPair}}
        \cup {sftp_recv(Truncate(<<Lit(SSH_FXP_VERSION)>> \o PUT_32BIT(U32(SFTP_PROTO_VERSION)), k))
                 : k \in 0 .. 4}

CodecUnchanged == UNCHANGED <<sftp_requests, nalloc, xfer, rrq, outstanding, freed, env>>

\* fxp_init: issued holds the frame it sent
FxpInit ==
    /\ last.op \in {"init", "fxp_init"}
    /\ \E pktin \in InitReplies :
       \E r \in {fxp_init(pktin, ErrChannel)} :
              /\ fxp_errtype' = r.err.errtype
              /\ fxp_error_message' = r.err.message
              /\ issued' = <<r.sent>>
              /\ delivered' = <<>>
              /\ last' = Last("fxp_init", r.ret, NullReq, pktin, r.pktfreed)
    /\ CodecUnchanged

\* entries of a NAME reply: the 12-byte minimum; names "a" and "ab" with a
\* size; one with an extended attribute pair; 12 bytes whose first string
\* declares more than the packet holds
NameEntries ==
    {PUT_32BIT(U32(0)) \o PUT_32BIT(U32(0)) \o PUT_32BIT(U32(0)),
     PUT_32BIT(U32(1)) \o <<Lit(97)>> \o PUT_32BIT(U32(2)) \o <<Lit(97), Lit(98)>>
         \o PUT_32BIT(U32(1)) \o PUT_32BIT(U32(0)) \o PUT_32BIT(U32(7)),
     PUT_32BIT(U32(0)) \o PUT_32BIT(U32(0)) \o PUT_32BIT(TopBit)
         \o PUT_32BIT(U32(1)) \o PUT_32BIT(U32(1)) \o <<Lit(120)>> \o ExtensionPair,
     PUT_32BIT(U32(200)) \o <<Lit(1), Lit(2), Lit(3), Lit(4), Lit(5), Lit(6), Lit(7), Lit(8)>>}

\* replies given to fxp_readdir_recv: NAME frames declaring any count over
\* zero to two entries, a NAME frame cut inside the count, and a STATUS
ReaddirFrames ==
    {<<Lit(SSH_FXP_NAME)>> \o PUT_32BIT(U32(REQUEST_ID_OFFSET)) \o PUT_32BIT(c) \o x
        : c \in {U32(n) : n \in 0 .. 3} \cup {TopBit, AllOnes},
          x \in {<<>>} \cup NameEntries \cup {x1 \o x2 : x1, x2 \in NameEntries}}
        \cup {<<Lit(SSH_FXP_NAME)>> \o PUT_32BIT(U32(REQUEST_ID_OFFSET)) \o <<Lit(0), Lit(0)>>,
              StatusFrame(SSH_FXP_STATUS, U32(REQUEST_ID_OFFSET), U32(SSH_FX_EOF))}

\* fxp_readdir_recv on the packet sftp_find_request resolved: delivered holds
\* what the call returned
ReaddirRecv ==
    /\ last.op \in {"init", "fxp_init"}
    /\ \E pktin \in {sftp_pkt_getuint32(sftp_recv(fr)).pkt : fr \in ReaddirFrames} :
       \E r \in {fxp_readdir_recv(pktin, NoAttrs, ErrChannel)} :
              /\ fxp_errtype' = r.err.errtype
              /\ fxp_error_message' = r.err.message
              /\ issued' = <<>>
              /\ delivered' = <<r>>
              /\ last' = Last("readdir", IF r.null THEN 0 ELSE 1, NullReq, pktin, r.pktfreed)
    /\ CodecUnchanged

\* values given to the packet builder: words, strings (one holding a zero
\* byte) and attribute records with every combination of the five flag bits
Values ==
    [uint32 |-> {U32(0), U32(1), U32(256), <<1, 3>>, TopBit, AllOnes},
     string |-> {<<>>, <<Lit(97)>>, <<Lit(97), Lit(0), Lit(98)>>, <<Lit(255), Lit(10)>>},
     attrs |-> {[flags |-> <<hi, lo>>, size |-> uint64_make(w, U32(2)), uid |-> U32(3),
                 gid |-> w, permissions |-> U32(5), atime |-> w, mtime |-> U32(7)]
                   : hi \in {0, Half \div 2}, lo \in 0 .. 15, w \in {U32(1), AllOnes}}]

\* the builder call that adds the value x to pkt
Encode(pkt, x) ==
    CASE x.kind = "uint32" -> sftp_pkt_adduint32(pkt, x.v)
      [] x.kind = "string" ->
            sftp_pkt_addstring_data(sftp_pkt_addstring_start(pkt), x.v, DataLen(x.v))
      [] x.kind = "attrs" -> sftp_pkt_addattrs(pkt, x.v)

\* the getter call for a value of the kind, as [ok, val, pkt]
Decode(pkt, kind) ==
    CASE kind = "byte" -> sftp_pkt_getbyte(pkt)
      [] kind = "uint32" -> sftp_pkt_getuint32(pkt)
      [] kind = "string" ->
            Only({[ok |-> g.ok, val |-> [length |-> g.length, str |-> g.str], pkt |-> g.pkt]
                     : g \in {sftp_pkt_getstring(pkt)}})
      [] kind = "attrs" ->
            Only({[ok |-> g.ok, val |-> g.attrs, pkt |-> g.pkt]
                     : g \in {sftp_pkt_getattrs(pkt, NoAttrs)}})

\* a value is built into a packet, alone or followed by a zero word; the
\* packet is sent, received whole or with its last cut bytes missing, and the
\* value is read back with its getter
RoundTrip ==
    /\ last.op = "init"
    /\ \E kind \in DOMAIN Values :
       \E x \in {[kind |-> kind, v |-> v] : v \in Values[kind]} :
       \E built \in {Encode(sftp_pkt_init(SSH_FXP_INIT), x)} :
       \E followed \in BOOLEAN :
       \E cut \in 0 .. (IF followed THEN 0 ELSE built.length - 1) :
       \E frame \in {sftp_send(IF followed THEN sftp_pkt_adduint32(built, U32(0)) ELSE built)} :
       \E g \in {Decode(sftp_recv(Slice(frame, 4, ToInt(GET_32BIT(frame, 0)) - cut)), x.kind)} :
              /\ issued' = <<frame>>
              /\ delivered' = <<[value |-> x, ok |-> g.ok, got |-> g.val, end |-> built.length,
                                 followed |-> followed, cut |-> cut]>>
              /\ last' = Last("roundtrip", IF g.ok THEN 1 ELSE 0, NullReq, g.pkt, FALSE)
    /\ UNCHANGED <<fxp_errtype, fxp_error_message>>
    /\ CodecUnchanged

\* sftp_recv hands a packet to a caller, its cursor after the type byte
Receive ==
    /\ last.op = "init"
    /\ \E pktin \in {sftp_recv(fr) : fr \in ReaddirFrames} :
          last' = Last("recv", 1, NullReq, pktin, FALSE)
    /\ issued' = <<>>
    /\ delivered' = <<>>
    /\ UNCHANGED <<fxp_errtype, fxp_error_message>>
    /\ CodecUnchanged

\* the caller applies any getter at the cursor, whatever the earlier ones returned
Getter ==
    /\ last.op \in {"recv", "get"}
    /\ \E kind \in {"byte", "uint32", "string", "attrs"} :
       \E g \in {Decode(last.pkt, kind)} :
              /\ last' = Last("get", IF g.ok THEN 1 ELSE 0, NullReq, g.pkt, FALSE)
              /\ delivered' = <<[kind |-> kind, ok |-> g.ok]>>
    /\ issued' = <<>>
    /\ UNCHANGED <<fxp_errtype, fxp_error_message>>
    /\ CodecUnchanged

NextCodec == FxpInit \/ ReaddirRecv \/ RoundTrip \/ Receive \/ Getter

SpecCodec == Init /\ [][NextCodec]_vars

(***************************************************************************)
(* Properties.                                                             *)
(***************************************************************************)
Ids(t) == {t[i].id : i \in DOMAIN t}

RECURSIVE SumLen(_, _)
SumLen(q, k) == IF k = 0 THEN 0 ELSE q[k].len + SumLen(q, k - 1)

\* C1: sftp_alloc_request returns the smallest id >= 256 that is not in the
\* registry, whatever allocations and removals came before, and adds it.
C1_FirstFit ==
    [][(last'.op = "alloc" /\ nalloc' = nalloc + 1) =>
          /\ last'.req.id >= REQUEST_ID_OFFSET
          /\ last'.req.id \notin Ids(sftp_requests)
          /\ \A j \in REQUEST_ID_OFFSET .. (last'.req.id - 1) : j \in Ids(sftp_requests)
          /\ Ids(sftp_requests') = Ids(sftp_requests) \cup {last'.req.id}]_vars

\* 256, 257, 258 were allocated in order, 257 was resolved and the next
\* allocation returned 257 again
C1_Witness ==
    /\ last.op = "alloc"
    /\ last.req.id = REQUEST_ID_OFFSET + 1
    /\ Ids(sftp_requests) = {REQUEST_ID_OFFSET, REQUEST_ID_OFFSET + 1, REQUEST_ID_OFFSET + 2}
    /\ nalloc = 4

\* C2: the ids in the registry are pairwise distinct and each is >= 256, and
\* the assertion of sftp_alloc_request has never failed.
C2_DistinctIds ==
    /\ \A i, j \in DOMAIN sftp_requests :
          i # j => sftp_requests[i].id # sftp_requests[j].id
    /\ \A i \in DOMAIN sftp_requests : sftp_requests[i].id >= REQUEST_ID_OFFSET
    /\ last.asserted

\* an allocation into a registry that has seen a removal
C2_Witness ==
    /\ last.op = "alloc"
    /\ last.asserted
    /\ Len(sftp_requests) >= 2
    /\ nalloc > Len(sftp_requests)

\* C3: sftp_find_request returns the registered descriptor whose id the
\* packet carries and removes that descriptor alone, so that no descriptor
\* with the id remains and the same reply cannot resolve twice; any other
\* packet resolves nothing.
C3_Resolve ==
    [][last'.op = "find" =>
          LET pkt == last'.pkt
              hits == IF ~pkt.null /\ pkt.length - pkt.savedpos >= 4
                      THEN {i \in DOMAIN sftp_requests :
                               /\ U32(sftp_requests[i].id) = GET_32BIT(pkt.data, pkt.savedpos)
                               /\ sftp_requests[i].registered}
                      ELSE {}
          IN  IF hits # {}
              THEN \E i \in hits :
                      /\ last'.req = sftp_requests[i]
                      /\ sftp_requests' = SubSeq(sftp_requests, 1, i - 1)
                                            \o SubSeq(sftp_requests, i + 1, Len(sftp_requests))
                      /\ last'.req.id \notin Ids(sftp_requests')
              ELSE last'.req = NullReq /\ sftp_requests' = sftp_requests]_vars

\* a reply resolved while a request with a smaller id is still awaited
C3_Witness ==
    /\ last.op = "find"
    /\ last.req.ptr # 0
    /\ \E i \in DOMAIN sftp_requests :
          sftp_requests[i].registered /\ sftp_requests[i].id < last.req.id

\* C4 (as claimed): whenever sftp_find_request fails for a received packet,
\* no descriptor is returned, the packet has been freed and the error type
\* is -1.
C4_FailureFreesPacket ==
    (last.op = "find" /\ ~last.pkt.null /\ last.req.ptr = 0) =>
        (last.pktfreed /\ fxp_errtype = -1)

\* C5: for a STATUS packet with a readable code c, fxp_got_status returns 1
\* iff c = 0, 0 iff c = 1 and -1 otherwise, stores c (as an int) as the error
\* type and the table's message for c in 0..8, "unknown error code" otherwise;
\* for any other packet it stores error type -1 and returns -1.
C5_StatusMapping ==
    last.op = "status" =>
        IF last.pkt.type = SSH_FXP_STATUS /\ last.pkt.length - last.pkt.savedpos >= 4
        THEN LET c == GET_32BIT(last.pkt.data, last.pkt.savedpos) IN
             /\ (last.ret = 1) = (c = <<0, 0>>)
             /\ (last.ret = 0) = (c = <<0, 1>>)
             /\ (c # <<0, 0>> /\ c # <<0, 1>>) => last.ret = -1
             /\ fxp_errtype = ToInt(c)
             /\ fxp_error_message = IF c[1] = 0 /\ c[2] <= 8 THEN messages[c[2] + 1]
                                    ELSE "unknown error code"
        ELSE fxp_errtype = -1 /\ last.ret = -1

\* a code with the top bit set was decoded
C5_Witness ==
    /\ last.op = "status"
    /\ last.pkt.type = SSH_FXP_STATUS
    /\ fxp_errtype < -1
    /\ last.ret = -1
    /\ fxp_error_message = "unknown error code"

\* C6: during a download the in-flight byte count is at most
\* req_maxsize + (the size of one READ) - 1.
C6_Window ==
    env.dir = "download" => xfer.req_totalsize <= xfer.req_maxsize + ReadLen - 1

\* the window refilled by xfer_download_queue up to the bound exactly
C6_Witness ==
    /\ env.dir = "download"
    /\ last.op = "queue"
    /\ Len(delivered) > 0
    /\ xfer.req_totalsize = xfer.req_maxsize + ReadLen - 1

C8_QueueIsOutstanding ==
    env.dir = "download" => Len(rrq) = Cardinality(outstanding)

\* C8 (amended): during a download the queued records that are still pending
\* are exactly the READs whose reply has not yet been processed, each held in
\* the registry, registered, with its record as userdata; the queue holds, in
\* addition, the completed records xfer_download_data has not yet removed.
C8_PendingIsOutstanding ==
    env.dir = "download" =>
        /\ Cardinality({i \in DOMAIN rrq : rrq[i].complete = 0}) = Cardinality(outstanding)
        /\ Len(sftp_requests) = Cardinality(outstanding)
        /\ \A o \in outstanding :
              \E i \in DOMAIN rrq, k \in DOMAIN sftp_requests :
                 /\ rrq[i].complete = 0
                 /\ rrq[i].offset = o.offset
                 /\ sftp_requests[k].id = o.id
                 /\ sftp_requests[k].registered
                 /\ sftp_requests[k].userdata = rrq[i].ptr

\* a reply has been processed and its record is still queued, behind or ahead
\* of pending ones
C8_Witness ==
    /\ env.dir = "download"
    /\ last.op = "gotpkt"
    /\ outstanding # {}
    /\ Len(rrq) > Cardinality(outstanding)

\* C9 (as claimed): a READ reply that is an SSH_FX_EOF status or a DATA reply
\* of length 0 sets eof and leaves its record failed, and xfer_download_data
\* hands no such record to the consumer.
C9_EofMarksFailed ==
    /\ (/\ env.dir = "download"
        /\ last.op = "gotpkt"
        /\ \/ last.rep = [t |-> "status", n |-> SSH_FX_EOF]
           \/ last.rep = [t |-> "data", n |-> 0])
          => /\ xfer.eof
             /\ \E i \in DOMAIN rrq :
                   rrq[i].offset = last.o.offset /\ rrq[i].complete = -1
    /\ \A k \in DOMAIN delivered : delivered[k].len > 0

NonEmpty(d) == d.len > 0

\* C10: with a server that obeys the file and a caller that never calls
\* xfer_set_error, err stays clear, the non-empty buffers handed out are runs
\* of file bytes that follow one another from the start offset and stay within
\* the file, and once xfer_done holds they reach the end of the file.
C10_DownloadDelivers ==
    (env.dir = "download" /\ env.bad = 0 /\ ~env.seterr) =>
        LET D == SelectSeq(delivered, NonEmpty) IN
        /\ ~xfer.err
        /\ \A k \in DOMAIN D :
              /\ D[k].buf.data = <<Run(env.start + SumLen(D, k - 1), D[k].len)>>
              /\ env.start + SumLen(D, k) <= env.size
        /\ xfer_done(xfer, rrq) =>
              env.start + SumLen(D, Len(D)) = (IF env.size > env.start THEN env.size
                                                ELSE env.start)

\* a file of a block and a bit, downloaded to the end with replies that
\* arrived out of order
C10_Witness ==
    /\ env.dir = "download"
    /\ env.bad = 0
    /\ ~env.seterr
    /\ env.ooo
    /\ env.size = ReadLen + 1696
    /\ env.start = 0
    /\ xfer_done(xfer, rrq)
    /\ Len(SelectSeq(delivered, NonEmpty)) = 2

\* the last reply was a READ reply that xfer_download_gotpkt took through its
\* updates: DATA of no more than the requested length, or an SSH_FX_EOF status
ReachedUpdates ==
    /\ env.dir = "download"
    /\ last.op = "gotpkt"
    /\ \/ last.rep.t = "data" /\ last.rep.n <= last.o.len
       \/ last.rep = [t |-> "status", n |-> SSH_FX_EOF]

\* the bytes the last reply returned, EOF counted as none
Returned == IF last.rep.t = "data" THEN last.rep.n ELSE 0

ShortBufferMessage == "received a short buffer from FXP_READ, but not at EOF"

\* C11: after xfer_download_gotpkt has processed the reply to a READ at offset
\* X of length R that returned r < R bytes (EOF counted as r = 0), the believed
\* file size is at most X + r.
C11_ShortReadBoundsSize ==
    (ReachedUpdates /\ Returned < last.o.len) =>
        uint64_compare(xfer.filesize, U64(OffNat(last.o.offset) + Returned)) <= 0

\* a short read in the middle of the transfer fixed the believed size at X + r
C11_Witness ==
    /\ ReachedUpdates
    /\ last.rep = [t |-> "data", n |-> 1696]
    /\ OffNat(last.o.offset) > 0
    /\ xfer.filesize = U64(OffNat(last.o.offset) + 1696)

C13_UploadAck ==
    [][(env.dir = "upload" /\ last'.op = "gotpkt") =>
          \E i \in DOMAIN rrq, k \in DOMAIN sftp_requests :
             /\ sftp_requests[k].id = last'.o.id
             /\ rrq[i].ptr = sftp_requests[k].userdata
             /\ rrq[i].offset = last'.o.offset
             /\ rrq[i].len = last'.o.len
             /\ rrq' = SubSeq(rrq, 1, i - 1) \o SubSeq(rrq, i + 1, Len(rrq))
             /\ xfer'.req_totalsize = xfer.req_totalsize - rrq[i].len
             /\ outstanding' = {} =>
                   (rrq' = <<>> /\ xfer'.req_totalsize = 0 /\ xfer_done(xfer', rrq'))
             /\ ~env'.seterr => ~xfer'.err]_vars

\* three writes of 4096 bytes, acknowledged OK out of order, the last just now
C13_Witness ==
    /\ env.dir = "upload"
    /\ last.op = "gotpkt"
    /\ last.rep = [t |-> "status", n |-> SSH_FX_OK]
    /\ last.ret = 1
    /\ env.ooo
    /\ Len(issued) = 3
    /\ SumLen(issued, 3) = 3 * 4096
    /\ outstanding = {}
    /\ rrq = <<>>
    /\ xfer.req_totalsize = 0
    /\ xfer_done(xfer, rrq)
    /\ ~xfer.err

\* C14 (as claimed): a reply that arrives after xfer_cleanup, for a request of
\* the transfer that was still outstanding or for an id unknown to the
\* registry, is discarded safely by the gotpkt function: the packet is freed
\* and neither a freed req record nor a null descriptor is dereferenced.
C14_LateReplyDiscarded ==
    (env.dir \in {"aborted download", "aborted upload"} /\ last.op = "gotpkt") =>
        (last.pktfreed /\ ~last.ub)

\* C15: xfer_done returns true iff (eof or err) and the queue is empty, so no
\* req is queued when it returns true, and for an upload, whose eof is set from
\* the start, it returns true exactly when no write is outstanding.
C15_Done ==
    last.op = "done" =>
        /\ last.ret \in {0, 1}
        /\ (last.ret = 1) <=> ((xfer.eof \/ xfer.err) /\ Len(rrq) = 0)
        /\ last.ret = 1 => rrq = <<>>
        /\ env.dir = "upload" => (xfer.eof /\ ((last.ret = 1) <=> (outstanding = {})))

\* an upload asked after its three writes were acknowledged
C15_Witness ==
    /\ last.op = "done"
    /\ last.ret = 1
    /\ env.dir = "upload"
    /\ Len(issued) = 3
    /\ outstanding = {}

\* the reply is a VERSION packet whose version word can be read
VersionReadable(pkt) == ~pkt.null /\ pkt.type = SSH_FXP_VERSION /\ pkt.length >= 5

\* ... and is at most 3
VersionSupported(pkt) ==
    /\ VersionReadable(pkt)
    /\ \A k \in 1 .. 3 : ByteAt(pkt.data, k) = 0
    /\ ByteAt(pkt.data, 4) <= 3

\* C16: fxp_init sends INIT with version 3; it returns 1 iff the reply is a
\* VERSION packet with a readable version <= 3, whatever follows the version;
\* every failure sets error type -1, a version > 3 with the "more advanced"
\* message; a success leaves the error channel as it was.
C16_Init ==
    [][last'.op = "fxp_init" =>
          /\ issued' = <<<<Lit(0), Lit(0), Lit(0), Lit(5), Lit(1),
                           Lit(0), Lit(0), Lit(0), Lit(3)>>>>
          /\ (last'.ret = 1) <=> VersionSupported(last'.pkt)
          /\ last'.ret \in {0, 1}
          /\ last'.ret = 0 => fxp_errtype' = -1
          /\ (VersionReadable(last'.pkt) /\ ~VersionSupported(last'.pkt))
                => fxp_error_message' = "remote protocol is more advanced than we support"
          /\ last'.ret = 1 => (fxp_errtype' = fxp_errtype
                               /\ fxp_error_message' = fxp_error_message)]_vars

\* a version 3 reply with an extension pair accepted after an earlier failure
C16_Witness ==
    /\ last.op = "fxp_init"
    /\ last.ret = 1
    /\ last.pkt.length > 5
    /\ ByteAt(last.pkt.data, 4) = 3
    /\ fxp_errtype = -1
    /\ fxp_error_message = "remote protocol is more advanced than we support"

\* the count a NAME packet declares, and the bytes that follow it
DeclaredCount(pkt) == GET_32BIT(pkt.data, 5)
AfterCount(pkt) == pkt.length - 9

\* str is a terminated copy of bytes that lie inside the packet
ContainedIn(str, pkt) ==
    \E pos \in 9 .. pkt.length :
        /\ pos + Len(str) - 1 <= pkt.length
        /\ str = Slice(pkt.data, pos, Len(str) - 1) \o <<Lit(0)>>

\* C17: on a NAME reply whose count exceeds (bytes after the count) / 12,
\* fxp_readdir_recv returns null with no name storage allocated, error type -1
\* and "malformed FXP_NAME packet"; a list it returns has exactly count
\* entries, each string copied from bytes inside the packet.
C17_Readdir ==
    (last.op = "readdir" /\ last.pkt.type = SSH_FXP_NAME /\ last.pkt.length >= 9) =>
        /\ U32Less(U32(AfterCount(last.pkt) \div 12), DeclaredCount(last.pkt)) =>
              /\ delivered[1].null
              /\ ~delivered[1].allocated
              /\ fxp_errtype = -1
              /\ fxp_error_message = "malformed FXP_NAME packet"
        /\ ~delivered[1].null =>
              /\ U32(Len(delivered[1].names)) = DeclaredCount(last.pkt)
              /\ delivered[1].pkt.savedpos <= last.pkt.length
              /\ \A i \in 1 .. Len(delivered[1].names) :
                    /\ ContainedIn(delivered[1].names[i].filename, last.pkt)
                    /\ ContainedIn(delivered[1].names[i].longname, last.pkt)

\* a count of 3 over two well-formed entries of 12 and 23 bytes is refused
C17_Witness ==
    /\ last.op = "readdir"
    /\ last.pkt.type = SSH_FXP_NAME
    /\ AfterCount(last.pkt) = 35
    /\ DeclaredCount(last.pkt) = U32(3)
    /\ delivered[1].null
    /\ ~delivered[1].allocated

\* a list of two entries, the second named "a"
C17_ListWitness ==
    /\ last.op = "readdir"
    /\ ~delivered[1].null
    /\ Len(delivered[1].names) = 2
    /\ delivered[1].names[2].filename = <<Lit(97), Lit(0)>>
    /\ delivered[1].names[2].attrs.size = uint64_make(U32(0), U32(7))

\* got is what decoding the value x must give: the word, the string and its
\* length, or the flags and every field whose flag is set
SameValue(x, got) ==
    CASE x.kind = "uint32" -> got = x.v
      [] x.kind = "string" -> got = [length |-> DataLen(x.v), str |-> x.v]
      [] x.kind = "attrs" ->
            /\ got.flags = x.v.flags
            /\ AttrFlag(x.v.flags, "SIZE") => got.size = x.v.size
            /\ AttrFlag(x.v.flags, "UIDGID") => (got.uid = x.v.uid /\ got.gid = x.v.gid)
            /\ AttrFlag(x.v.flags, "PERMISSIONS") => got.permissions = x.v.permissions
            /\ AttrFlag(x.v.flags, "ACMODTIME") =>
                  (got.atime = x.v.atime /\ got.mtime = x.v.mtime)

\* the round trip succeeded: the getter returned the value and stopped at its end
RoundTripHolds ==
    /\ delivered[1].ok
    /\ SameValue(delivered[1].value, delivered[1].got)
    /\ last.pkt.savedpos = delivered[1].end

\* C18: a word, a string or an attribute record (every combination of SIZE,
\* UIDGID, PERMISSIONS, ACMODTIME and EXTENDED) built into a packet is read
\* back unchanged by its getter, with the cursor at the end of the value.
C18_RoundTrip ==
    (last.op = "roundtrip" /\ delivered[1].cut = 0) => RoundTripHolds

\* the same without the records whose EXTENDED bit is set
C18_RoundTripNotExtended ==
    (/\ last.op = "roundtrip"
     /\ delivered[1].cut = 0
     /\ ~(delivered[1].value.kind = "attrs"
          /\ AttrFlag(delivered[1].value.v.flags, "EXTENDED"))) => RoundTripHolds

\* a record with all four plain flags read back, a zero word following it
C18_Witness ==
    /\ last.op = "roundtrip"
    /\ delivered[1].value.kind = "attrs"
    /\ delivered[1].value.v.flags = U32(15)
    /\ delivered[1].followed
    /\ RoundTripHolds

\* the bytes of pkt from the cursor on
Remaining(pkt) == pkt.length - pkt.savedpos

\* the bytes the flags word of an attribute record announces after itself
AnnouncedBy(flags) ==
    (IF AttrFlag(flags, "SIZE") THEN 8 ELSE 0) + (IF AttrFlag(flags, "UIDGID") THEN 8 ELSE 0)
        + (IF AttrFlag(flags, "PERMISSIONS") THEN 4 ELSE 0)
        + (IF AttrFlag(flags, "ACMODTIME") THEN 8 ELSE 0)
        + (IF AttrFlag(flags, "EXTENDED") THEN 4 ELSE 0)

\* the getter of the kind, called on pkt, asks for more bytes than remain
AsksTooMuch(pkt, kind) ==
    CASE kind = "byte" -> Remaining(pkt) < 1
      [] kind = "uint32" -> Remaining(pkt) < 4
      [] kind = "string" ->
            \/ Remaining(pkt) < 4
            \/ U32Less(U32(Remaining(pkt) - 4), GET_32BIT(pkt.data, pkt.savedpos))
      [] kind = "attrs" ->
            \/ Remaining(pkt) < 4
            \/ Remaining(pkt) - 4 < AnnouncedBy(GET_32BIT(pkt.data, pkt.savedpos))

\* C19: whatever getters are called on a received packet, the cursor stays
\* within 0 .. length and never moves back, and a getter asking for more
\* bytes than remain (a string declaring 2^31 or more included) fails; a
\* packet that lost its last byte or more makes the value's getter fail.
C19_GettersStayInside ==
    [][/\ last'.op = "get" =>
             /\ last'.pkt.savedpos \in last.pkt.savedpos .. last'.pkt.length
             /\ last'.pkt.length = last.pkt.length
             /\ AsksTooMuch(last.pkt, delivered'[1].kind) => last'.ret = 0
       /\ (last'.op = "roundtrip" /\ delivered'[1].cut >= 1) =>
             /\ ~delivered'[1].ok
             /\ last'.pkt.savedpos \in 0 .. last'.pkt.length]_vars

\* a string declaring 2^31 bytes, with 12 bytes left in the packet, was refused
C19_Witness ==
    /\ last.op = "get"
    /\ delivered[1].kind = "string"
    /\ last.ret = 0
    /\ last.pkt.savedpos = 9
    /\ last.pkt.length = 21
    /\ GET_32BIT(last.pkt.data, 5) = TopBit

\* an attribute record that lost its last byte was refused
C19_TruncatedWitness ==
    /\ last.op = "roundtrip"
    /\ delivered[1].value.kind = "attrs"
    /\ delivered[1].value.v.flags = U32(15)
    /\ delivered[1].cut = 1
    /\ ~delivered[1].ok

\* the number of records a step took off the list
Removed == Len(rrq) - Len(rrq')

\* C20: a call of xfer_download_data removes records only from the head of
\* the list and never a pending one; at most one of those it removes was
\* successful, and it is the one whose buffer is handed back; the call
\* returns 1 exactly when it hands a buffer back; the bytes in flight go
\* down by the requested length of every record removed.
C20_DataFromHead ==
    [][(last'.op = "data" /\ env.dir = "download") =>
          /\ Removed \in 0 .. Len(rrq)
          /\ rrq' = SubSeq(rrq, Removed + 1, Len(rrq))
          /\ \A i \in 1 .. Removed : rrq[i].complete # 0
          /\ Cardinality({i \in 1 .. Removed : rrq[i].complete > 0}) <= 1
          /\ (last'.ret = 1) <=> (\E i \in 1 .. Removed : rrq[i].complete > 0)
          /\ last'.ret \in {0, 1}
          /\ last'.ret = 1 =>
                /\ rrq[Removed].complete > 0
                /\ delivered' = Append(delivered, [buf |-> rrq[Removed].buffer,
                                                   len |-> rrq[Removed].retlen])
          /\ last'.ret = 0 => delivered' = delivered
          /\ xfer'.req_totalsize = xfer.req_totalsize - SumLen(rrq, Removed)]_vars

\* a call returned 0 and left a pending record at the head with a completed
\* one behind it
C20_Witness ==
    /\ last.op = "data"
    /\ last.ret = 0
    /\ env.dir = "download"
    /\ Len(rrq) >= 2
    /\ rrq[1].complete = 0
    /\ \E i \in 2 .. Len(rrq) : rrq[i].complete > 0

\* the requests a step sent
Sent == SubSeq(issued', Len(issued) + 1, Len(issued'))

\* C21: xfer_download_queue with eof or err set sends nothing and changes
\* nothing; with both clear it sends READs of the per-request size at
\* consecutive offsets from xfer->offset on, stopping as soon as the bytes in
\* flight reach req_maxsize; each READ sent is registered and its descriptor's
\* userdata is the req record queued for it.
C21_QueueMore ==
    [][(last'.op = "queue" /\ env.dir = "download") =>
          /\ (xfer.eof \/ xfer.err) =>
                UNCHANGED <<xfer, rrq, sftp_requests, nalloc, outstanding, issued>>
          /\ (~xfer.eof /\ ~xfer.err) =>
                /\ Len(issued') >= Len(issued)
                /\ SubSeq(issued', 1, Len(issued)) = issued
                /\ Len(rrq') = Len(rrq) + Len(Sent)
                /\ SubSeq(rrq', 1, Len(rrq)) = rrq
                /\ \A k \in 1 .. Len(Sent) :
                      /\ Sent[k].kind = "read"
                      /\ Sent[k].len = ReadLen
                      /\ OffNat(Sent[k].offset) = OffNat(xfer.offset) + (k - 1) * ReadLen
                      /\ Sent[k] \in outstanding'
                      /\ rrq'[Len(rrq) + k].offset = Sent[k].offset
                      /\ rrq'[Len(rrq) + k].len = ReadLen
                      /\ rrq'[Len(rrq) + k].complete = 0
                      /\ \E i \in DOMAIN sftp_requests' :
                            /\ sftp_requests'[i].id = Sent[k].id
                            /\ sftp_requests'[i].registered
                            /\ sftp_requests'[i].userdata = rrq'[Len(rrq) + k].ptr
                /\ OffNat(xfer'.offset) = OffNat(xfer.offset) + Len(Sent) * ReadLen
                /\ xfer'.req_totalsize = xfer.req_totalsize + Len(Sent) * ReadLen
                /\ xfer'.req_totalsize >= xfer'.req_maxsize
                /\ Len(Sent) > 0 => xfer'.req_totalsize - ReadLen < xfer'.req_maxsize
                /\ ~xfer'.eof /\ ~xfer'.err]_vars

\* a call refilled the window after the first block was handed to the consumer
C21_Witness ==
    /\ last.op = "queue"
    /\ env.dir = "download"
    /\ ~xfer.eof /\ ~xfer.err
    /\ Len(delivered) >= 1
    /\ Len(issued) >= 4
    /\ xfer.req_totalsize >= xfer.req_maxsize
    /\ rrq[Len(rrq)].complete = 0
    /\ OffNat(rrq[Len(rrq)].offset) + ReadLen = OffNat(xfer.offset)

\* C22: in a download whose READs are all answered, in any order, and whose
\* consumer keeps calling xfer_download_data, once eof or err is set the list
\* becomes empty and xfer_done true: no answered record stays pending.
C22_Drains ==
    (env.dir = "download" /\ (xfer.eof \/ xfer.err)) ~> (rrq = <<>> /\ xfer_done(xfer, rrq))

\* a download with err set by an error reply, records still queued, one of
\* them failed and one pending
C22_Witness ==
    /\ env.dir = "download"
    /\ xfer.err
    /\ Len(rrq) >= 2
    /\ \E i \in DOMAIN rrq : rrq[i].complete < 0
    /\ \E i \in DOMAIN rrq : rrq[i].complete = 0

\* C23: a reply whose request has no userdata, offered to xfer_download_gotpkt
\* or xfer_upload_gotpkt, makes it return 0 and leaves the transfer as it
\* was: the list, the bytes in flight, offset, furthestdata, filesize, eof
\* and err.
C23_NotOurs ==
    [][last'.op = "foreign" =>
          /\ last'.ret = 0
          /\ ~last'.ub
          /\ rrq' = rrq
          /\ xfer'.req_totalsize = xfer.req_totalsize
          /\ xfer'.offset = xfer.offset
          /\ xfer'.furthestdata = xfer.furthestdata
          /\ xfer'.filesize = xfer.filesize
          /\ xfer'.eof = xfer.eof
          /\ xfer'.err = xfer.err]_vars

\* a download with a delivered block and reads pending was offered such a reply
C23_Witness ==
    /\ last.op = "foreign"
    /\ last.ret = 0
    /\ env.dir = "download"
    /\ Len(delivered) >= 1
    /\ \E i \in DOMAIN rrq : rrq[i].complete = 0

\* the reply acknowledges the write with SSH_FX_OK
AckOk(rep) == rep = [t |-> "status", n |-> SSH_FX_OK]

\* C24: an acknowledgement of a WRITE that is not SSH_FX_OK (an error status,
\* a packet of another type, a malformed one) makes xfer_upload_gotpkt return
\* -1; the req record of that write is still taken off the list and its
\* length off the bytes in flight; err is not written.  In an upload err
\* changes only in the caller's xfer_set_error.
C24_FailedAck ==
    [][env.dir = "upload" =>
          /\ (last'.op = "gotpkt" /\ ~AckOk(last'.rep)) =>
                /\ last'.ret = -1
                /\ Len(rrq') = Len(rrq) - 1
                /\ \E i \in DOMAIN rrq, k \in DOMAIN sftp_requests :
                      /\ sftp_requests[k].id = last'.o.id
                      /\ rrq[i].ptr = sftp_requests[k].userdata
                      /\ rrq[i].len = last'.o.len
                      /\ rrq' = SubSeq(rrq, 1, i - 1) \o SubSeq(rrq, i + 1, Len(rrq))
                      /\ \A j \in DOMAIN rrq' : rrq'[j].ptr # rrq[i].ptr
                      /\ xfer'.req_totalsize = xfer.req_totalsize - rrq[i].len
                /\ xfer'.err = xfer.err
          /\ (last'.op = "gotpkt" /\ AckOk(last'.rep)) => last'.ret = 1
          /\ last'.op # "set_error" => xfer'.err = xfer.err]_vars

\* a write of 4096 bytes was refused with SSH_FX_FAILURE while another is
\* still unacknowledged, and err is clear
C24_Witness ==
    /\ env.dir = "upload"
    /\ last.op = "gotpkt"
    /\ last.rep = [t |-> "status", n |-> SSH_FX_FAILURE]
    /\ last.o.len = 4096
    /\ last.ret = -1
    /\ Len(rrq) >= 1
    /\ ~xfer.err
    /\ fxp_errtype = SSH_FX_FAILURE

\* the bytes a DATA reply of n bytes to the READ at offset off carries
Payload(off, n) == IF n > 0 THEN <<Run(OffNat(off), n)>> ELSE <<>>

\* the error type the reply rep sets when fxp_read_recv returns -1
ErrTypeOf(rep) == IF rep.t = "status" THEN rep.n ELSE -1

\* C25: the req record of the READ a reply answers gets a length of 0..len
\* and the reply's bytes only from a DATA reply whose string fits the packet
\* and the request; a DATA reply declaring more than was asked, or a negative
\* length, leaves the buffer as it was and gives -1 with error type -1; and
\* whenever the length is -1 the error type and message are the ones this
\* reply determines, whatever they were before (unless the engine's own
\* short-buffer check replaced them afterwards), so the record is taken as
\* end of file exactly when the reply is SSH_FX_EOF and fails otherwise, and
\* eof is set only by a reply of SSH_FX_EOF or an empty DATA.
C25_ReadRecv ==
    [][(env.dir = "download" /\ last'.op = "gotpkt" /\ ~last'.ub) =>
          \E i \in DOMAIN rrq, k \in DOMAIN sftp_requests :
             /\ sftp_requests[k].id = last'.o.id
             /\ rrq[i].ptr = sftp_requests[k].userdata
             /\ rrq'[i].ptr = rrq[i].ptr
             /\ rrq'[i].retlen >= -1
             /\ rrq'[i].retlen >= 0 =>
                   /\ last'.rep.t = "data"
                   /\ rrq'[i].retlen = last'.rep.n
                   /\ rrq'[i].retlen <= rrq[i].len
                   /\ rrq'[i].buffer.data = Payload(rrq[i].offset, last'.rep.n)
                   /\ last'.ret = 1 => /\ fxp_errtype' = fxp_errtype
                                       /\ fxp_error_message' = fxp_error_message
             /\ ((last'.rep.t = "data" /\ last'.rep.n > rrq[i].len)
                    \/ last'.rep.t = "negative") =>
                   /\ rrq'[i].retlen = -1
                   /\ rrq'[i].buffer = rrq[i].buffer
                   /\ fxp_errtype' = -1
                   /\ last'.ret = -1
             /\ rrq'[i].retlen = -1 =>
                   /\ fxp_error_message' # ShortBufferMessage =>
                         fxp_errtype' = ErrTypeOf(last'.rep)
                   /\ fxp_error_message' # "NULL"
                   /\ rrq'[i].buffer = rrq[i].buffer
                   /\ IF last'.rep = [t |-> "status", n |-> SSH_FX_EOF]
                      THEN xfer'.eof /\ rrq'[i].complete = 1
                      ELSE /\ xfer'.err
                           /\ xfer'.eof = xfer.eof
                           /\ rrq'[i].complete = -1
                           /\ last'.ret = -1
             /\ (xfer'.eof /\ ~xfer.eof) =>
                   \/ last'.rep = [t |-> "status", n |-> SSH_FX_EOF]
                   \/ last'.rep = [t |-> "data", n |-> 0]]_vars

\* a READ was answered with one byte more than it asked for while the error
\* type left by an earlier SSH_FX_EOF reply, whose record is still queued,
\* was in place: the record failed and the error type is now -1
C25_Witness ==
    /\ env.dir = "download"
    /\ last.op = "gotpkt"
    /\ last.rep = [t |-> "data", n |-> ReadLen + 1]
    /\ last.ret = -1
    /\ fxp_errtype = -1
    /\ xfer.err
    /\ \E i \in DOMAIN rrq : rrq[i].retlen = -1 /\ rrq[i].complete = 1
    /\ \E i \in DOMAIN rrq :
          rrq[i].retlen = -1 /\ rrq[i].complete = -1 /\ rrq[i].buffer.data = <<>>

\* the descriptors of the registry that were never registered
Unregistered(t) == {t[i] : i \in {j \in DOMAIN t : ~t[j].registered}}

\* C26: a sftp_find_request that returns NULL leaves the registry as it was;
\* a descriptor that was allocated and not registered is never the one
\* returned and is still in the registry afterwards, whatever id the packet
\* carries; and sftp_alloc_request never returns the id of such a descriptor.
C26_Unregistered ==
    [][/\ last'.op = "find" =>
             /\ last'.req.ptr = 0 => sftp_requests' = sftp_requests
             /\ \A r \in Unregistered(sftp_requests) :
                   /\ last'.req.ptr # r.ptr
                   /\ r \in Unregistered(sftp_requests')
       /\ (last'.op = "alloc" /\ ~last'.ub) =>
             /\ \A r \in Unregistered(sftp_requests) :
                   /\ last'.req.id # r.id
                   /\ r \in Unregistered(sftp_requests')
             /\ last'.req \in Unregistered(sftp_requests')]_vars

\* 256 was allocated and never registered, a reply carrying 256 was rejected
\* with "request ID mismatch", 256 is still in the registry next to the
\* registered 257
C26_Witness ==
    /\ last.op = "find"
    /\ ~last.pkt.null
    /\ DataLen(last.pkt.data) >= 5
    /\ GET_32BIT(last.pkt.data, 1) = U32(REQUEST_ID_OFFSET)
    /\ last.req = NullReq
    /\ fxp_error_message = "request ID mismatch\n"
    /\ \E r \in Unregistered(sftp_requests) : r.id = REQUEST_ID_OFFSET
    /\ \E i \in DOMAIN sftp_requests :
          sftp_requests[i].registered /\ sftp_requests[i].id = REQUEST_ID_OFFSET + 1

\* the allocation that follows the rejected reply skips the unregistered 256
\* and the registered 257 and returns 258
C26_AllocWitness ==
    /\ last.op = "alloc"
    /\ last.req.id = REQUEST_ID_OFFSET + 2
    /\ fxp_error_message = "request ID mismatch\n"
    /\ \E r \in Unregistered(sftp_requests) : r.id = REQUEST_ID_OFFSET

\* C27: in a download and in an upload req_totalsize is the sum of the len
\* fields of the req records in the list; it is never negative, and it is 0
\* exactly when every queued len is 0, as when the list is empty.
C27_InFlightIsSum ==
    env.dir \in {"download", "upload"} =>
        /\ xfer.req_totalsize = SumLen(rrq, Len(rrq))
        /\ xfer.req_totalsize >= 0
        /\ (xfer.req_totalsize = 0) <=> (\A i \in DOMAIN rrq : rrq[i].len = 0)
        /\ rrq = <<>> => xfer.req_totalsize = 0

\* an upload with a write of 0 bytes and one of 4096 bytes queued after the
\* acknowledgement of an earlier write was processed
C27_Witness ==
    /\ env.dir = "upload"
    /\ last.op = "gotpkt"
    /\ Len(rrq) = 2
    /\ \E i \in DOMAIN rrq : rrq[i].len = 0
    /\ xfer.req_totalsize = 4096

\* a download whose consumer has taken buffers and whose window was refilled
C27_DownloadWitness ==
    /\ env.dir = "download"
    /\ last.op = "queue"
    /\ Len(delivered) >= 2
    /\ Len(rrq) = 3
    /\ xfer.req_totalsize = 3 * ReadLen

\* only writes of 0 bytes are queued: the list is not empty and nothing is in
\* flight
C27_ZeroWitness ==
    /\ env.dir = "upload"
    /\ Len(rrq) = 2
    /\ xfer.req_totalsize = 0

\* C28: no step of a transfer clears eof or err once set, raises filesize or
\* lowers furthestdata.
C28_Monotone ==
    [][env.dir \in {"download", "upload"} =>
          /\ xfer.eof => xfer'.eof
          /\ xfer.err => xfer'.err
          /\ uint64_compare(xfer'.filesize, xfer.filesize) <= 0
          /\ uint64_compare(xfer'.furthestdata, xfer.furthestdata) >= 0]_vars

\* a download that has seen end of file and an error, has lowered filesize
\* from its initial value, and has just processed data for an offset below
\* furthestdata, which stayed where it was
C28_Witness ==
    /\ env.dir = "download"
    /\ last.op = "gotpkt"
    /\ last.rep.t = "data"
    /\ last.rep.n > 0
    /\ last.ret = -1
    /\ xfer.eof
    /\ xfer.err
    /\ uint64_compare(last.o.offset, xfer.furthestdata) < 0
    /\ uint64_compare(xfer.filesize, xfer.furthestdata) < 0

\* the number of times pointer p was given to sfree
TimesFreed(fr, p) == Cardinality({k \in DOMAIN fr : fr[k] = p})

\* the buffers of the req records in the list
Queued(q) == {q[i].buffer.ptr : i \in DOMAIN q}

\* the buffers handed to the consumer
Handed(d) == {d[k].buf.ptr : k \in DOMAIN d}

\* C29 (as claimed): in a download every buffer of a queued READ has one
\* owner: while its record is in the list it has been neither handed out nor
\* freed, and in the step in which the record leaves the list the buffer is
\* either handed to the consumer, once, or given to sfree, once, and not both.
C29_BuffersReleased ==
    [][env.dir = "download" =>
          /\ \A b \in Queued(rrq) : b \notin Handed(delivered) /\ TimesFreed(freed, b) = 0
          /\ \A b \in Queued(rrq) \ Queued(rrq') :
                \/ /\ b \in Handed(delivered')
                   /\ Cardinality({k \in DOMAIN delivered' : delivered'[k].buf.ptr = b}) = 1
                   /\ TimesFreed(freed', b) = 0
                \/ /\ b \notin Handed(delivered')
                   /\ TimesFreed(freed', b) = 1]_vars

\* the part of C29 that holds: no buffer is handed out twice or freed twice,
\* none is both handed out and freed, and xfer_cleanup frees the buffer of
\* every record still in the list
C29_NoDoubleRelease ==
    [][env.dir = "download" =>
          /\ \A b \in Queued(rrq) : b \notin Handed(delivered) /\ TimesFreed(freed, b) = 0
          /\ \A b \in Queued(rrq) \ Queued(rrq') :
                /\ Cardinality({k \in DOMAIN delivered' : delivered'[k].buf.ptr = b}) <= 1
                /\ TimesFreed(freed', b) <= 1
                /\ ~(b \in Handed(delivered') /\ TimesFreed(freed', b) = 1)
                /\ last'.op = "cleanup" => TimesFreed(freed', b) = 1]_vars

\* the registry the last sftp_alloc_request searched
Searched ==
    IF last.ub \/ ~last.asserted THEN sftp_requests ELSE del234(sftp_requests, last.req)

\* the invariant of the search, on signed low and high
LoopInv(t, low, high) ==
    /\ -1 <= low
    /\ low < high
    /\ high <= Len(t)
    /\ \A k \in 0 .. low : t[k + 1].id = REQUEST_ID_OFFSET + k
    /\ high < Len(t) => t[high + 1].id > REQUEST_ID_OFFSET + high

\* the search on signed integers: low = -1, high = count, mid = (low+high)/2
RECURSIVE SignedSearch(_, _, _)
SignedSearch(t, low, high) ==
    IF high - low > 1
    THEN IF t[((low + high) \div 2) + 1].id = ((low + high) \div 2) + REQUEST_ID_OFFSET
         THEN SignedSearch(t, (low + high) \div 2, high)
         ELSE SignedSearch(t, low, (low + high) \div 2)
    ELSE low

\* C30: the search of sftp_alloc_request, on unsigned low, high and mid with
\* low starting at 2^32 - 1, ends after at most count iterations (the
\* distance from low to high shrinks in each); it starts from low = -1 and
\* high = count; every mid it probes is an index of the registry and is the
\* mid of the signed search; before each iteration and at the end positions
\* 0..low hold the ids 256..256+low and the element at high, if there is
\* one, has an id above 256+high; and the id returned is the one the signed
\* search gives.
C30_UnsignedSearch ==
    (env.dir = "search" /\ last.op = "alloc") =>
        /\ ~last.ub
        /\ last.asserted
        /\ Len(last.probes) <= Len(Searched)
        /\ (last.probes = <<>>) <=> (Searched = <<>>)
        /\ last.probes # <<>> =>
              /\ last.probes[1].low = AllOnes
              /\ last.probes[1].high = U32(Len(Searched))
        /\ \A k \in DOMAIN last.probes :
              /\ last.probes[k].mid[1] = 0
              /\ last.probes[k].mid[2] \in 0 .. (Len(Searched) - 1)
              /\ last.probes[k].mid[2]
                    = (ToInt(last.probes[k].low) + ToInt(last.probes[k].high)) \div 2
              /\ LoopInv(Searched, ToInt(last.probes[k].low), ToInt(last.probes[k].high))
              /\ k < Len(last.probes) =>
                    ToInt(last.probes[k + 1].high) - ToInt(last.probes[k + 1].low)
                       < ToInt(last.probes[k].high) - ToInt(last.probes[k].low)
        /\ LoopInv(Searched, last.req.id - REQUEST_ID_OFFSET - 1,
                   last.req.id - REQUEST_ID_OFFSET)
        /\ last.req.id = REQUEST_ID_OFFSET + 1 + SignedSearch(Searched, -1, Len(Searched))

\* the registry held 256, 257, 258, 260, 261, 262: the search probed the
\* indices 2, 4 and 3, the first two with low still 2^32 - 1 or just set,
\* and returned 259
C30_Witness ==
    /\ env.dir = "search"
    /\ last.op = "alloc"
    /\ last.req.id = REQUEST_ID_OFFSET + 3
    /\ Len(sftp_requests) = 7
    /\ Len(last.probes) = 3
    /\ last.probes[1] = [low |-> AllOnes, high |-> U32(6), mid |-> U32(2)]
    /\ last.probes[2].mid = U32(4)
    /\ last.probes[3].mid = U32(3)

\* the registry held 257..263 and lacked 256: low stayed 2^32 - 1 through
\* the three iterations
C30_MinusOneWitness ==
    /\ env.dir = "search"
    /\ last.op = "alloc"
    /\ last.req.id = REQUEST_ID_OFFSET
    /\ Len(sftp_requests) = 8
    /\ Len(last.probes) = 3
    /\ \A k \in DOMAIN last.probes : last.probes[k].low = AllOnes

====
